---- MODULE Spec2Model ----
(***************************************************************************)
(* The agent orchestration engine of on-device-browser-agent:              *)
(*   Executor          src/src/background/agents/executor.ts               *)
(*   PlannerAgent      src/unnamed/part_002                                *)
(*   NavigatorAgent    src/src/background/agents/navigator-agent.ts        *)
(*   LLMEngineManager  src/unnamed/part_003                                *)
(*                                                                         *)
(* JavaScript runs one task to completion between two awaits, so an action *)
(* of this module is the code that runs from the completion of one awaited *)
(* provider call up to the next await (or up to the return / throw of      *)
(* executeTask, its finally block included).  The code of such a stretch   *)
(* is written as a composition of operators on a record s holding the      *)
(* whole state; Commit(s) makes s the next state.                          *)
(*                                                                         *)
(* shared/constants and agents/base-agent are not among the sources:       *)
(* MAX_STEPS, MAX_REPLANS, DEFAULT_MODEL, FALLBACK_MODELS and              *)
(* BaseAgent.invoke / reset are modelled from their uses and from the      *)
(* specification; the two budgets are given small values.                  *)
(***************************************************************************)
EXTENDS Integers, Sequences, FiniteSets, TLC

VARIABLES
    isRunning,            \* Executor.isRunning
    shouldCancel,         \* Executor.shouldCancel
    context,              \* Executor.context (AgentContext | null)
    plannerTranscript,    \* conversation memory of Executor.planner
    navigatorTranscript,  \* conversation memory of Executor.navigator
    llm,                  \* LLMEngineManager.state and initializationPromise
    progressCallbacks,    \* LLMEngineManager.progressCallbacks
    hasGPU,               \* navigator.gpu is present
    pc,                   \* the await at which the running executeTask call is suspended
    step,                 \* local `step` of the execution loop
    replans,              \* local `replans`
    consecutiveFailures,  \* local `consecutiveFailures`
    action,               \* local `action` (the Navigator's decision)
    domState,             \* local `domState`
    trigger,              \* which of the three replan sites awaits planner.replan
    replanArgs,           \* the arguments of the planner.replan call in flight
    tryIdx,               \* doInitialize: index in modelsToTry of the model being created
    reports,              \* progress reports delivered during the initialize call in flight
    callsMade,            \* number of executeTask calls made so far
    returned,             \* how the latest executeTask call to settle has settled
    events,               \* the ExecutorEvents emitted since the running / last task began
    cleanupAt,            \* Len(events) when the finally block of the task ran (-1: not yet)
    cancelStep,           \* step number in progress at the first cancel() of the task (-1: none, 0: before step 1)
    eventListeners,       \* Executor.eventListeners, in insertion order
    deliveries,           \* the listener calls made by emit, in order: <<listener, event>>
    listenerErrors,       \* number of listener exceptions caught and logged by emit
    outstanding,          \* the provider calls issued and not yet settled, in order of issue
    navigatorCall,        \* a NavigatorAgent.getNextAction call: its arguments and the prompt it builds
    contentCall,          \* a content-side executeAction call: its arguments, the page and its outcome
    manager,              \* LLMEngineManager under initialize calls of several callers
    offscreen             \* the offscreen host: engine, isInitializing, messages and replies

vars == <<isRunning, shouldCancel, context, plannerTranscript, navigatorTranscript,
          llm, progressCallbacks, hasGPU, pc, step, replans, consecutiveFailures,
          action, domState, trigger, replanArgs, tryIdx, reports, callsMade,
          returned, events, cleanupAt, cancelStep, eventListeners, deliveries,
          listenerErrors, outstanding, navigatorCall, contentCall, manager, offscreen>>

----------------------------------------------------------------------------
(* Bounds of the model *)

\* executeTask calls made in one behaviour
MaxCalls == 2
\* initProgressCallback reports per llmEngine.initialize call
MaxProgress == 1
\* events emitted in a behaviour that exercises the listeners
MaxEmits == 2
\* entries of the history handed to the Navigator
MaxHistory == 6
\* llmEngine.initialize calls made in a behaviour that exercises the manager
MaxInitCalls == 3
\* messages the offscreen host receives in a behaviour that exercises it
MaxMessages == 4

(* Program constants (shared/constants) *)

MAX_STEPS == 6
MAX_REPLANS == 2
MAX_INTERACTIVE_ELEMENTS == 3
DEFAULT_MODEL == "default-model"
FALLBACK_MODELS == <<"fallback-model">>

\* executor.ts:215, the failure streak that triggers a replan
StreakThreshold == 3

\* navigator-agent.ts:98, the history entries shown to the Navigator
RecentWindow == 5

\* navigator-agent.ts:133, the characters of page text shown to the Navigator
ExcerptLength == 1500

----------------------------------------------------------------------------
(* Values *)

\* a parameter that the action's parameters mapping does not hold (undefined)
ABSENT == "<undefined>"

NoPlan == 0
NullContext == [null |-> TRUE, task |-> 0, plan |-> NoPlan, history |-> <<>>]
NoAction == [action_type |-> "", param |-> ""]
NoArgs == [history |-> <<>>, plan |-> NoPlan, reason |-> ""]
NoReturn == [kind |-> "none", value |-> ""]
NoPrompt == [built |-> FALSE]
NoNavigatorCall == [context |-> NullContext, domState |-> "", prompt |-> NoPrompt]
NoOutcome == [kind |-> "pending"]
\* LLMEngineManager as constructed: state, initializationPromise (0: null,
\* else the doInitialize run whose promise it is), the doInitialize runs
\* started and the initialize calls made
InitialManager ==
    [state |-> [engine |-> <<>>, isLoading |-> FALSE, loadProgress |-> 0,
                currentModel |-> "", error |-> ""],
     initializationPromise |-> 0,
     runs |-> <<>>,
     calls |-> <<>>]

\* the offscreen host as loaded: engine (<<>>: null), isInitializing, the
\* messages received, the CreateMLCEngine calls made and the replies sent
InitialOffscreen ==
    [engine |-> <<>>, isInitializing |-> FALSE,
     received |-> <<>>, creations |-> <<>>, replies |-> <<>>]

AlreadyInitializing == "Already initializing"
\* the message of the error CreateMLCEngine rejects with
CreateMLCEngineError == "CreateMLCEngine failed"

NoContentCall ==
    [actionType |-> "", params |-> ABSENT, page |-> ABSENT, outcome |-> NoOutcome]

AlreadyRunningError == "Executor is already running a task"
CancelledError == "Task cancelled by user"
MaxStepsError == "Maximum steps exceeded without completing task"
WebGPUError == "WebGPU not supported"
LoadError == "model load failed"
PlannerError == "planner call failed"
NavigatorError == "navigator call failed"
ActionError == "action failed"

DefaultResult == "Task completed successfully"
DefaultReason == "Unknown failure"
DefaultStreakEventReason == "Multiple consecutive failures"
DefaultStreakReason == "Multiple action failures"

PageState == "page"
PlaceholderState == "unknown"

\* what the Navigator may decide: one operational action, done and fail
NavigatorActions ==
    {[action_type |-> "click", param |-> "#selector"]}
    \cup {[action_type |-> "done", param |-> p] : p \in {ABSENT, "", "the result"}}
    \cup {[action_type |-> "fail", param |-> "search box not found"]}

\* what the action provider may return: ActionResult
ActionResults ==
    { [success |-> TRUE, error |-> ABSENT],
      [success |-> FALSE, error |-> ActionError] }

(* ExecutorEvent; n: stepNumber / progress, s: result, reason, error or
   action_type, prefix: the fixed text put before an error message,
   ok: success of a STEP_RESULT *)
Event(t, n, prefix, s, ok) == [type |-> t, n |-> n, prefix |-> prefix, s |-> s, ok |-> ok]
Ev(t) == Event(t, 0, "", "", TRUE)
StepStart(n) == Event("STEP_START", n, "", "", TRUE)
InitProgress(p) == Event("INIT_PROGRESS", p, "", "", TRUE)
PlanComplete(p) == Event("PLAN_COMPLETE", p, "", "", TRUE)
StepAction(a) == Event("STEP_ACTION", 0, "", a.action_type, TRUE)
StepResult(r) == Event("STEP_RESULT", 0, "", "", r.success)
Replan(prefix, reason) == Event("REPLAN", 0, prefix, reason, TRUE)
TaskComplete(result) == Event("TASK_COMPLETE", 0, "", result, TRUE)
TaskFailed(prefix, error) == Event("TASK_FAILED", 0, prefix, error, FALSE)

\* JavaScript's `x || d` on an optional string: undefined and "" are falsy
OrDefault(x, d) == IF x = ABSENT \/ x = "" THEN d ELSE x

----------------------------------------------------------------------------
(* The state as one record, and back *)

Cur ==
    [isRunning |-> isRunning, shouldCancel |-> shouldCancel, context |-> context,
     plannerTranscript |-> plannerTranscript,
     navigatorTranscript |-> navigatorTranscript, llm |-> llm,
     progressCallbacks |-> progressCallbacks, hasGPU |-> hasGPU, pc |-> pc,
     step |-> step, replans |-> replans,
     consecutiveFailures |-> consecutiveFailures, action |-> action,
     domState |-> domState, trigger |-> trigger, replanArgs |-> replanArgs,
     tryIdx |-> tryIdx, reports |-> reports, callsMade |-> callsMade,
     returned |-> returned, events |-> events, cleanupAt |-> cleanupAt,
     cancelStep |-> cancelStep, eventListeners |-> eventListeners,
     deliveries |-> deliveries, listenerErrors |-> listenerErrors,
     outstanding |-> outstanding]

\* the awaited provider call c carries on as if it had settled when it has not
Unsettled(c) == Cur

\* the state as the awaited provider call c settles and executeTask resumes
Settled(c) == [Cur EXCEPT !.outstanding = SelectSeq(@, LAMBDA x : x # c)]

\* (the record is bound once, by the quantifier, and then taken apart)
Commit(s) ==
    \E r \in {s} :
        /\ isRunning' = r.isRunning
        /\ shouldCancel' = r.shouldCancel
        /\ context' = r.context
        /\ plannerTranscript' = r.plannerTranscript
        /\ navigatorTranscript' = r.navigatorTranscript
        /\ llm' = r.llm
        /\ progressCallbacks' = r.progressCallbacks
        /\ hasGPU' = r.hasGPU
        /\ pc' = r.pc
        /\ step' = r.step
        /\ replans' = r.replans
        /\ consecutiveFailures' = r.consecutiveFailures
        /\ action' = r.action
        /\ domState' = r.domState
        /\ trigger' = r.trigger
        /\ replanArgs' = r.replanArgs
        /\ tryIdx' = r.tryIdx
        /\ reports' = r.reports
        /\ callsMade' = r.callsMade
        /\ returned' = r.returned
        /\ events' = r.events
        /\ cleanupAt' = r.cleanupAt
        /\ cancelStep' = r.cancelStep
        /\ eventListeners' = r.eventListeners
        /\ deliveries' = r.deliveries
        /\ listenerErrors' = r.listenerErrors
        /\ outstanding' = r.outstanding
        /\ UNCHANGED <<navigatorCall, contentCall, manager, offscreen>>

----------------------------------------------------------------------------
(* Executor: emit, reset, the finally block *)

\* the listeners that may subscribe, and those whose callback throws
Listeners == {"popup", "faulty", "logger"}
Throwing == {"faulty"}

\* a listener exception that leaves the forEach callback
ListenerReturnsUncaught(l) == l \notin Throwing

\* try { listener(event) } catch (e) { console.error(...) }: the callback of
\* forEach returns normally whether listener l throws or not
ListenerReturns(l) == TRUE

\* this.eventListeners.forEach(...), from the listeners ls still to be called
RECURSIVE Deliver(_, _, _)
Deliver(s, ls, e) ==
    IF ls = <<>> THEN s
    ELSE LET l == Head(ls)
             called == [s EXCEPT !.deliveries = Append(@, <<l, e>>)]
             after == IF l \in Throwing /\ ListenerReturns(l)
                      THEN [called EXCEPT !.listenerErrors = @ + 1]
                      ELSE called
         IN  IF ListenerReturns(l) THEN Deliver(after, Tail(ls), e) ELSE after

\* Executor.emit: every subscribed listener receives the event
Emit(s, e) == Deliver([s EXCEPT !.events = Append(@, e)], s.eventListeners, e)

\* BaseAgent.reset: the transcript is cleared
ResetTranscript == <<>>

\* BaseAgent.invoke: the prompt joins the transcript, then the model is called
Invoke(transcript, prompt) == Append(transcript, prompt)

\* a reset that forgets navigator.reset()
ResetKeepsNavigator(s) ==
    [s EXCEPT !.plannerTranscript = ResetTranscript, !.context = NullContext]

\* Executor.reset
Reset(s) ==
    [s EXCEPT !.plannerTranscript = ResetTranscript,
              !.navigatorTranscript = ResetTranscript,
              !.context = NullContext]

\* the locals of executeTask go out of scope
DropLocals(s) ==
    [s EXCEPT !.pc = "idle", !.step = 0, !.replans = 0, !.consecutiveFailures = 0,
              !.action = NoAction, !.domState = "", !.trigger = "",
              !.replanArgs = NoArgs, !.tryIdx = 0, !.reports = 0]

\* finally { this.isRunning = false; this.reset(); }
Finally(s) ==
    DropLocals([Reset([s EXCEPT !.isRunning = FALSE]) EXCEPT !.cleanupAt = Len(s.events)])

\* a return of the default text whatever was emitted
ResolveDefaultText(s, v) ==
    [Finally(s) EXCEPT !.returned = [kind |-> "resolved", value |-> DefaultResult]]

\* executeTask returns v / throws v, through the finally block
Resolve(s, v) == [Finally(s) EXCEPT !.returned = [kind |-> "resolved", value |-> v]]
Reject(s, v) == [Finally(s) EXCEPT !.returned = [kind |-> "rejected", value |-> v]]

\* the budget check off by one
CanReplanOffByOne(r) == r <= MAX_REPLANS

\* replans < MAX_REPLANS
CanReplan(r) == r < MAX_REPLANS

\* the loop condition off by one
InBudgetOffByOne(n) == n <= MAX_STEPS

\* step < MAX_STEPS
InBudget(n) == n < MAX_STEPS

\* the loop top without the cancel check
LoopTopNoCancel(s) ==
    IF InBudget(s.step)
    THEN [Emit(s, StepStart(s.step + 1)) EXCEPT !.pc = "snapshot", !.outstanding = Append(@, "getDOMState")]
    ELSE Reject(Emit(s, TaskFailed("", MaxStepsError)), MaxStepsError)

\* the loop top emitting TASK_FAILED only after the cleanup
LoopTopLateEmit(s) ==
    IF InBudget(s.step)
    THEN IF s.shouldCancel
         THEN Reject(s, CancelledError)
         ELSE [Emit(s, StepStart(s.step + 1)) EXCEPT !.pc = "snapshot", !.outstanding = Append(@, "getDOMState")]
    ELSE Emit(Reject(s, MaxStepsError), TaskFailed("", MaxStepsError))

\* the loop top throwing at the end of the budget without TASK_FAILED
LoopTopSilentEnd(s) ==
    IF InBudget(s.step)
    THEN IF s.shouldCancel
         THEN Reject(s, CancelledError)
         ELSE [Emit(s, StepStart(s.step + 1)) EXCEPT !.pc = "snapshot", !.outstanding = Append(@, "getDOMState")]
    ELSE Reject(s, MaxStepsError)

\* the loop top checking the cancel flag only once a step has run
LoopTopCancelAfterFirstStep(s) ==
    IF InBudget(s.step)
    THEN IF s.shouldCancel /\ s.step > 0
         THEN Reject(s, CancelledError)
         ELSE [Emit(s, StepStart(s.step + 1)) EXCEPT !.pc = "snapshot", !.outstanding = Append(@, "getDOMState")]
    ELSE Reject(Emit(s, TaskFailed("", MaxStepsError)), MaxStepsError)

\* the top of the for loop: loop condition, cancel check, STEP_START, getDOMState()
LoopTop(s) ==
    IF InBudget(s.step)
    THEN IF s.shouldCancel
         THEN Reject(s, CancelledError)
         ELSE [Emit(s, StepStart(s.step + 1)) EXCEPT !.pc = "snapshot", !.outstanding = Append(@, "getDOMState")]
    ELSE Reject(Emit(s, TaskFailed("", MaxStepsError)), MaxStepsError)

\* a `continue` that does not advance the step number
NextIterationSameStep(s) == LoopTop(s)

\* `continue` / the end of the loop body: step++ and the next iteration
NextIteration(s) == LoopTop([s EXCEPT !.step = @ + 1])

\* a replan that forgets navigator.reset()
StartReplanStaleNavigator(s, prefix, evReason, reason, trig) ==
    [Emit([s EXCEPT !.replans = @ + 1], Replan(prefix, evReason))
       EXCEPT !.plannerTranscript = Invoke(ResetTranscript, "replan"),
              !.replanArgs = [history |-> s.context.history,
                              plan |-> s.context.plan, reason |-> reason],
              !.trigger = trig,
              !.pc = "replan", !.outstanding = Append(@, "replan")]

\* a replan whose Planner does not reset itself before invoking the model
StartReplanKeepsPlannerTranscript(s, prefix, evReason, reason, trig) ==
    [Emit([s EXCEPT !.replans = @ + 1], Replan(prefix, evReason))
       EXCEPT !.navigatorTranscript = ResetTranscript,
              !.plannerTranscript = Invoke(@, "replan"),
              !.replanArgs = [history |-> s.context.history,
                              plan |-> s.context.plan, reason |-> reason],
              !.trigger = trig,
              !.pc = "replan", !.outstanding = Append(@, "replan")]

\* a replan: replans++, REPLAN, navigator.reset(), planner.replan(context, reason)
\* (PlannerAgent.replan builds its prompt, resets itself and invokes the model)
StartReplan(s, prefix, evReason, reason, trig) ==
    [Emit([s EXCEPT !.replans = @ + 1], Replan(prefix, evReason))
       EXCEPT !.navigatorTranscript = ResetTranscript,
              !.plannerTranscript = Invoke(ResetTranscript, "replan"),
              !.replanArgs = [history |-> s.context.history,
                              plan |-> s.context.plan, reason |-> reason],
              !.trigger = trig,
              !.pc = "replan", !.outstanding = Append(@, "replan")]

----------------------------------------------------------------------------
(* LLMEngineManager *)

NoEngine == ""
InitialLLM ==
    [engine |-> NoEngine, isLoading |-> FALSE, loadProgress |-> 0,
     currentModel |-> NoEngine, error |-> "", initializationPromise |-> "null"]

\* const modelsToTry = [modelId, ...FALLBACK_MODELS.filter(m => m !== modelId)]
ModelsToTry(modelId) ==
    <<modelId>> \o SelectSeq(FALLBACK_MODELS, LAMBDA m : m # modelId)

\* LLMEngineManager.notifyProgress; the Executor's callback emits INIT_PROGRESS
NotifyProgress(s, p) ==
    IF "executor" \in s.progressCallbacks THEN Emit(s, InitProgress(p)) ELSE s

\* planning begun without announcing the end of the initialization
AfterInitializeUnannounced(s) ==
    LET u == [s EXCEPT !.progressCallbacks = @ \ {"executor"},
                       !.context = [null |-> FALSE, task |-> s.callsMade,
                                    plan |-> NoPlan, history |-> <<>>]]
    IN  [Emit(u, Ev("PLAN_START"))
           EXCEPT !.plannerTranscript = Invoke(@, "createPlan"), !.pc = "plan", !.outstanding = Append(@, "createPlan")]

\* an executeTask that leaves its progress callback registered
AfterInitializeStillSubscribed(s) ==
    LET c == [Emit(s, Ev("INIT_COMPLETE"))
                EXCEPT !.context = [null |-> FALSE, task |-> s.callsMade,
                                    plan |-> NoPlan, history |-> <<>>]]
    IN  [Emit(c, Ev("PLAN_START"))
           EXCEPT !.plannerTranscript = Invoke(@, "createPlan"), !.pc = "plan", !.outstanding = Append(@, "createPlan")]

\* executeTask after `await llmEngine.initialize()` has returned: unsubscribe(),
\* INIT_COMPLETE, the context, PLAN_START, planner.createPlan(task)
AfterInitialize(s) ==
    LET u == [s EXCEPT !.progressCallbacks = @ \ {"executor"}]
        c == [Emit(u, Ev("INIT_COMPLETE"))
                EXCEPT !.context = [null |-> FALSE, task |-> s.callsMade,
                                    plan |-> NoPlan, history |-> <<>>]]
    IN  [Emit(c, Ev("PLAN_START"))
           EXCEPT !.plannerTranscript = Invoke(@, "createPlan"), !.pc = "plan", !.outstanding = Append(@, "createPlan")]

\* a failed initialization thrown on without TASK_FAILED
InitializeFailedSilently(s, msg) ==
    Reject([s EXCEPT !.progressCallbacks = @ \ {"executor"}], msg)

\* executeTask when `await llmEngine.initialize()` has thrown: unsubscribe(),
\* TASK_FAILED, throw error
InitializeFailed(s, msg) ==
    LET u == [s EXCEPT !.progressCallbacks = @ \ {"executor"}]
    IN  Reject(Emit(u, TaskFailed("LLM initialization failed: ", msg)), msg)

\* LLMEngineManager.doInitialize up to its first await
DoInitialize(s) ==
    LET l == [s EXCEPT !.llm.isLoading = TRUE, !.llm.error = "",
                       !.llm.loadProgress = 0]
    IN  IF ~s.hasGPU
        THEN InitializeFailed(
                 [l EXCEPT !.llm.error = WebGPUError, !.llm.isLoading = FALSE,
                           !.llm.initializationPromise = "rejected"],
                 WebGPUError)
        ELSE [l EXCEPT !.llm.initializationPromise = "pending",
                       !.tryIdx = 1, !.reports = 0, !.pc = "init",
                       !.outstanding = Append(@, "createEngine")]

\* LLMEngineManager.initialize(DEFAULT_MODEL), as the Executor awaits it
Initialize(s) ==
    IF s.llm.initializationPromise # "null" /\ s.llm.currentModel = DEFAULT_MODEL
    THEN CASE s.llm.initializationPromise = "resolved" -> AfterInitialize(s)
           [] s.llm.initializationPromise = "rejected" -> InitializeFailed(s, s.llm.error)
           [] OTHER -> [s EXCEPT !.pc = "init"]
    ELSE IF s.llm.engine # NoEngine /\ s.llm.currentModel = DEFAULT_MODEL
         THEN AfterInitialize(s)
         ELSE DoInitialize(s)

----------------------------------------------------------------------------
(* Executor.executeTask *)

\* executeTask without the isRunning guard
NeverRunning(running) == FALSE

\* if (this.isRunning) throw
AlreadyRunning(running) == running

\* a call that leaves the cancel flag as the task before left it
ExecuteTaskKeepsCancel ==
    /\ callsMade < MaxCalls
    /\ IF AlreadyRunning(isRunning)
       THEN Commit([Cur EXCEPT !.callsMade = @ + 1,
                               !.returned = [kind |-> "rejected",
                                             value |-> AlreadyRunningError]])
       ELSE LET s0 == [Cur EXCEPT !.callsMade = @ + 1, !.isRunning = TRUE,
                                  !.returned = NoReturn,
                                  !.events = <<>>, !.cleanupAt = -1,
                                  !.cancelStep = -1]
                s1 == [Emit(s0, Ev("INIT_START"))
                         EXCEPT !.progressCallbacks = @ \cup {"executor"}]
            IN  Commit(Initialize(s1))

\* a guard placed inside the try block: the rejection runs the finally block
ExecuteTaskGuardInsideTry ==
    /\ callsMade < MaxCalls
    /\ IF AlreadyRunning(isRunning)
       THEN Commit(Reject([Cur EXCEPT !.callsMade = @ + 1], AlreadyRunningError))
       ELSE LET s0 == [Cur EXCEPT !.callsMade = @ + 1, !.isRunning = TRUE,
                                  !.shouldCancel = FALSE, !.returned = NoReturn,
                                  !.events = <<>>, !.cleanupAt = -1,
                                  !.cancelStep = -1]
                s1 == [Emit(s0, Ev("INIT_START"))
                         EXCEPT !.progressCallbacks = @ \cup {"executor"}]
            IN  Commit(Initialize(s1))

\* the call up to its first await
ExecuteTask ==
    /\ callsMade < MaxCalls
    /\ IF AlreadyRunning(isRunning)
       THEN Commit([Cur EXCEPT !.callsMade = @ + 1,
                               !.returned = [kind |-> "rejected",
                                             value |-> AlreadyRunningError]])
       ELSE LET s0 == [Cur EXCEPT !.callsMade = @ + 1, !.isRunning = TRUE,
                                  !.shouldCancel = FALSE, !.returned = NoReturn,
                                  !.events = <<>>, !.cleanupAt = -1,
                                  !.cancelStep = -1]
                s1 == [Emit(s0, Ev("INIT_START"))
                         EXCEPT !.progressCallbacks = @ \cup {"executor"}]
            IN  Commit(Initialize(s1))

\* initProgressCallback of the engine creation in flight
ProgressReport ==
    /\ pc = "init"
    /\ reports < MaxProgress
    /\ Commit(NotifyProgress([Cur EXCEPT !.llm.loadProgress = 50,
                                         !.reports = @ + 1], 50))

\* CreateExtensionServiceWorkerMLCEngine(model) resolves
CreateEngineReturns ==
    /\ pc = "init"
    /\ LET model == ModelsToTry(DEFAULT_MODEL)[tryIdx]
           l == [Settled("createEngine") EXCEPT !.llm.engine = model, !.llm.currentModel = model,
                            !.llm.isLoading = FALSE, !.llm.loadProgress = 100,
                            !.llm.initializationPromise = "resolved"]
       IN  Commit(AfterInitialize(NotifyProgress(l, 100)))

\* CreateExtensionServiceWorkerMLCEngine(model) rejects
CreateEngineFails ==
    /\ pc = "init"
    /\ IF tryIdx = Len(ModelsToTry(DEFAULT_MODEL))
       THEN Commit(InitializeFailed(
                [Settled("createEngine") EXCEPT !.llm.error = LoadError, !.llm.isLoading = FALSE,
                            !.llm.initializationPromise = "rejected"],
                LoadError))
       ELSE Commit([Settled("createEngine")
                      EXCEPT !.tryIdx = @ + 1,
                             !.outstanding = Append(@, "createEngine")])

\* planner.createPlan(task) resolves: the plan, PLAN_COMPLETE, the counters, step 1
CreatePlanReturns ==
    /\ pc = "plan"
    /\ LET p == [Settled("createPlan") EXCEPT !.context.plan = 1]
       IN  Commit(LoopTop([Emit(p, PlanComplete(1))
                             EXCEPT !.replans = 0, !.consecutiveFailures = 0,
                                    !.step = 0]))

\* planner.createPlan(task) rejects
CreatePlanFails ==
    /\ pc = "plan"
    /\ Commit(Reject(Emit(Settled("createPlan"), TaskFailed("Planning failed: ", PlannerError)),
                     PlannerError))

\* a snapshot failure that is not caught
GetDOMStateUncaught(ok) ==
    /\ pc = "snapshot"
    /\ IF ok
       THEN Commit([Settled("getDOMState") EXCEPT !.domState = PageState,
                               !.navigatorTranscript = Invoke(@, "getNextAction"),
                               !.pc = "navigate", !.outstanding = Append(@, "getNextAction")])
       ELSE Commit(Reject(Settled("getDOMState"), "snapshot failed"))

\* getDOMState() resolves or rejects; navigator.getNextAction(context, domState)
GetDOMState(ok) ==
    /\ pc = "snapshot"
    /\ Commit([Settled("getDOMState") EXCEPT !.domState = IF ok THEN PageState ELSE PlaceholderState,
                          !.navigatorTranscript = Invoke(@, "getNextAction"),
                          !.pc = "navigate", !.outstanding = Append(@, "getNextAction")])

GetDOMStateReturns == GetDOMState(TRUE)
GetDOMStateFails == GetDOMState(FALSE)

\* a Navigator failure that always ends the task
NavigatorFailsFatal ==
    /\ pc = "navigate"
    /\ Commit(Reject(Emit(Settled("getNextAction"), TaskFailed("Navigator error: ", NavigatorError)),
                     NavigatorError))

\* navigator.getNextAction rejects
NavigatorFails ==
    /\ pc = "navigate"
    /\ IF CanReplan(replans)
       THEN Commit(StartReplan(Settled("getNextAction"), "Navigator error: ", NavigatorError,
                               NavigatorError, "navigator"))
       ELSE Commit(Reject(Emit(Settled("getNextAction"), TaskFailed("Navigator error: ", NavigatorError)),
                          NavigatorError))

\* the result parameter passed on as it is
DoneResultNoDefault(a) == a.param

\* the result of a done action
DoneResult(a) == OrDefault(a.param, DefaultResult)

\* a fail action handed to the action provider like any other action
NavigatorReturnsAppliesFail(a) ==
    /\ pc = "navigate"
    /\ LET s == Emit([Settled("getNextAction") EXCEPT !.action = a], StepAction(a))
       IN  CASE a.action_type = "done" ->
                  Commit(Resolve(Emit(s, TaskComplete(DoneResult(a))), DoneResult(a)))
             [] OTHER -> Commit([s EXCEPT !.pc = "act", !.outstanding = Append(@, "executeAction")])

\* navigator.getNextAction resolves with action a
NavigatorReturns(a) ==
    /\ pc = "navigate"
    /\ LET s == Emit([Settled("getNextAction") EXCEPT !.action = a], StepAction(a))
       IN  CASE a.action_type = "done" ->
                  Commit(Resolve(Emit(s, TaskComplete(DoneResult(a))), DoneResult(a)))
             [] a.action_type = "fail" ->
                  LET reason == OrDefault(a.param, DefaultReason)
                  IN  IF CanReplan(replans)
                      THEN Commit(StartReplan(s, "", reason, reason, "fail"))
                      ELSE Commit(Reject(Emit(s, TaskFailed("", reason)), reason))
             [] OTHER -> Commit([s EXCEPT !.pc = "act", !.outstanding = Append(@, "executeAction")])

\* the streak test without the budget test
StreakReplanNoBudget(failures, r) == failures >= StreakThreshold

\* the streak test one failure late
StreakReplanLate(failures, r) == failures > StreakThreshold /\ CanReplan(r)

\* the failure streak calls for a replan
StreakReplan(failures, r) == failures >= StreakThreshold /\ CanReplan(r)

\* an unsuccessful ActionResult that ends the task
RecordFailureFatal(s, r) ==
    LET h == [Emit(s, StepResult(r))
                EXCEPT !.context.history =
                           Append(@, [action |-> s.action, success |-> r.success,
                                      error |-> r.error])]
    IN  IF ~r.success
        THEN Reject(Emit(h, TaskFailed("", r.error)), r.error)
        ELSE NextIteration([h EXCEPT !.consecutiveFailures = 0])

\* a successful ActionResult that leaves the failure counter as it was
RecordSuccessKeepsStreak(s, r) ==
    LET h == [Emit(s, StepResult(r))
                EXCEPT !.context.history =
                           Append(@, [action |-> s.action, success |-> r.success,
                                      error |-> r.error])]
    IN  IF ~r.success
        THEN LET f == [h EXCEPT !.consecutiveFailures = @ + 1]
             IN  IF StreakReplan(f.consecutiveFailures, f.replans)
                 THEN StartReplan(f, "", OrDefault(r.error, DefaultStreakEventReason),
                                  OrDefault(r.error, DefaultStreakReason), "streak")
                 ELSE NextIteration(f)
        ELSE NextIteration(h)

\* the action result r is known: STEP_RESULT, the history entry, failure handling
Record(s, r) ==
    LET h == [Emit(s, StepResult(r))
                EXCEPT !.context.history =
                           Append(@, [action |-> s.action, success |-> r.success,
                                      error |-> r.error])]
    IN  IF ~r.success
        THEN LET f == [h EXCEPT !.consecutiveFailures = @ + 1]
             IN  IF StreakReplan(f.consecutiveFailures, f.replans)
                 THEN StartReplan(f, "", OrDefault(r.error, DefaultStreakEventReason),
                                  OrDefault(r.error, DefaultStreakReason), "streak")
                 ELSE NextIteration(f)
        ELSE NextIteration([h EXCEPT !.consecutiveFailures = 0])

\* executeAction(action_type, parameters) resolves with r
ActionReturns(r) ==
    /\ pc = "act"
    /\ Commit(Record(Settled("executeAction"), r))

\* executeAction rejects and nothing catches it
ActionThrowsUncaught ==
    /\ pc = "act"
    /\ Commit(Reject(Settled("executeAction"), ActionError))

\* executeAction rejects: { success: false, error: error.message }
ActionThrows ==
    /\ pc = "act"
    /\ Commit(Record(Settled("executeAction"), [success |-> FALSE, error |-> ActionError]))

\* every replan zeroes the counter
FailuresAfterReplanAllZero(trig, failures) == 0

\* what the three replan sites do to consecutiveFailures once the plan is replaced
FailuresAfterReplan(trig, failures) == IF trig = "navigator" THEN failures ELSE 0

\* planner.replan resolves and the new plan is not announced
ReplanReturnsSilently ==
    /\ pc = "replan"
    /\ Commit(NextIteration(
           [Settled("replan") EXCEPT !.context.plan = replans + 1,
                       !.consecutiveFailures = FailuresAfterReplan(trigger, @),
                       !.trigger = "", !.replanArgs = NoArgs]))

\* planner.replan resolves and the context is left without a plan
ReplanReturnsNoPlan ==
    /\ pc = "replan"
    /\ LET p == [Settled("replan") EXCEPT !.context.plan = NoPlan]
       IN  Commit(NextIteration(
               [Emit(p, PlanComplete(replans + 1))
                  EXCEPT !.consecutiveFailures = FailuresAfterReplan(trigger, @),
                         !.trigger = "", !.replanArgs = NoArgs]))

\* planner.replan resolves: the plan is replaced, PLAN_COMPLETE, next iteration
ReplanReturns ==
    /\ pc = "replan"
    /\ LET p == [Settled("replan") EXCEPT !.context.plan = replans + 1]
       IN  Commit(NextIteration(
               [Emit(p, PlanComplete(replans + 1))
                  EXCEPT !.consecutiveFailures = FailuresAfterReplan(trigger, @),
                         !.trigger = "", !.replanArgs = NoArgs]))

\* planner.replan rejects: the error leaves executeTask
ReplanFails ==
    /\ pc = "replan"
    /\ Commit(Reject(Settled("replan"), PlannerError))

\* a cancel() that throws into the running call at once
CancelPreempts ==
    /\ IF isRunning
       THEN Commit(Reject([Cur EXCEPT !.shouldCancel = TRUE], CancelledError))
       ELSE Commit([Cur EXCEPT !.shouldCancel = TRUE])

\* Executor.cancel
Cancel ==
    /\ Commit([Cur EXCEPT !.shouldCancel = TRUE,
                          !.cancelStep =
                              IF @ # -1 \/ ~isRunning THEN @
                              ELSE IF pc \in {"init", "plan"} THEN 0 ELSE step + 1])

----------------------------------------------------------------------------

ExecutorInit ==
    /\ isRunning = FALSE
    /\ shouldCancel = FALSE
    /\ context = NullContext
    /\ plannerTranscript = <<>>
    /\ navigatorTranscript = <<>>
    /\ llm = InitialLLM
    /\ progressCallbacks = {}
    /\ hasGPU \in BOOLEAN
    /\ pc = "idle"
    /\ step = 0
    /\ replans = 0
    /\ consecutiveFailures = 0
    /\ action = NoAction
    /\ domState = ""
    /\ trigger = ""
    /\ replanArgs = NoArgs
    /\ tryIdx = 0
    /\ reports = 0
    /\ callsMade = 0
    /\ returned = NoReturn
    /\ events = <<>>
    /\ cleanupAt = -1
    /\ cancelStep = -1
    /\ eventListeners = <<>>
    /\ deliveries = <<>>
    /\ listenerErrors = 0
    /\ outstanding = <<>>

Init ==
    /\ ExecutorInit
    /\ navigatorCall = NoNavigatorCall
    /\ contentCall = NoContentCall
    /\ manager = InitialManager
    /\ offscreen = InitialOffscreen

Next ==
    \/ ExecuteTask
    \/ ProgressReport
    \/ CreateEngineReturns
    \/ CreateEngineFails
    \/ CreatePlanReturns
    \/ CreatePlanFails
    \/ GetDOMStateReturns
    \/ GetDOMStateFails
    \/ NavigatorFails
    \/ \E a \in NavigatorActions : NavigatorReturns(a)
    \/ \E r \in ActionResults : ActionReturns(r)
    \/ ActionThrows
    \/ ReplanReturns
    \/ ReplanFails
    \/ Cancel

\* an awaited provider call (engine creation, planner, snapshot, navigator,
\* action) resolves or rejects
ProviderSettles ==
    \/ CreateEngineReturns
    \/ CreateEngineFails
    \/ CreatePlanReturns
    \/ CreatePlanFails
    \/ GetDOMStateReturns
    \/ GetDOMStateFails
    \/ NavigatorFails
    \/ \E a \in NavigatorActions : NavigatorReturns(a)
    \/ \E r \in ActionResults : ActionReturns(r)
    \/ ActionThrows
    \/ ReplanReturns
    \/ ReplanFails

Spec == Init /\ [][Next]_vars

\* Executor.onEvent(listener): Set.add keeps the place of a listener already there
OnEvent(l) ==
    /\ Commit([Cur EXCEPT !.eventListeners =
                  IF \E i \in DOMAIN @ : @[i] = l THEN @ ELSE Append(@, l)])

\* the function returned by onEvent: this.eventListeners.delete(listener)
Unsubscribe(l) ==
    /\ Commit([Cur EXCEPT !.eventListeners = SelectSeq(@, LAMBDA x : x # l)])

\* the events emit is called with when the listeners are exercised
EmittedEvents == {Ev("INIT_START"), StepStart(1)}

\* Executor.emit(event)
EmitEvent(e) ==
    /\ Len(events) < MaxEmits
    /\ Commit(Emit(Cur, e))

\* listeners come and go while events are emitted
ListenerNext ==
    \/ \E l \in Listeners : OnEvent(l)
    \/ \E l \in Listeners : Unsubscribe(l)
    \/ \E e \in EmittedEvents : EmitEvent(e)

ListenerSpec == Init /\ [][ListenerNext]_vars

----------------------------------------------------------------------------
(* NavigatorAgent.getNextAction: the prompt *)

Min(a, b) == IF a < b THEN a ELSE b
Max(a, b) == IF a > b THEN a ELSE b

\* Array.prototype.slice / String.prototype.slice(start, end): positions count
\* from 0, a negative position counts from the end, out-of-range positions
\* are clamped, an empty range gives the empty sequence
Slice(seq, start, end) ==
    LET n == Len(seq)
        from == IF start < 0 THEN Max(n + start, 0) ELSE Min(start, n)
        to == IF end < 0 THEN Max(n + end, 0) ELSE Min(end, n)
    IN  IF from >= to THEN <<>> ELSE SubSeq(seq, from + 1, to)

\* slice(start)
SliceFrom(seq, start) == Slice(seq, start, Len(seq))

\* one line of RECENT ACTIONS
HistoryLine(h) ==
    [action |-> h.action.action_type,
     outcome |-> IF h.success THEN "OK" ELSE "FAILED: ",
     detail |-> IF h.success THEN "" ELSE h.error]

\* one line of INTERACTIVE ELEMENTS
ElementLine(el) == [index |-> el.index, tag |-> el.tag, selector |-> el.selector]

\* .map(...) over the entries, over the elements
HistoryLines(seq) == [i \in DOMAIN seq |-> HistoryLine(seq[i])]
ElementLines(seq) == [i \in DOMAIN seq |-> ElementLine(seq[i])]

NoActionsNotice == <<"No actions taken yet.">>
NoElementsNotice == <<"No interactive elements found on this page.">>

\* the oldest entries instead of the newest
RecentActionsOldest(history) ==
    IF Len(history) > 0
    THEN HistoryLines(Slice(history, 0, RecentWindow))
    ELSE NoActionsNotice

\* historyStr: context.history.slice(-5).map(...), or the notice
RecentActions(history) ==
    IF Len(history) > 0
    THEN HistoryLines(SliceFrom(history, -RecentWindow))
    ELSE NoActionsNotice

\* every element of the snapshot listed
ElementsShownUncapped(elements) ==
    IF elements # <<>> THEN ElementLines(elements) ELSE NoElementsNotice

\* elementsStr || 'No interactive elements found on this page.'
ElementsShown(elements) ==
    LET shown == ElementLines(Slice(elements, 0, MAX_INTERACTIVE_ELEMENTS))
    IN  IF shown # <<>> THEN shown ELSE NoElementsNotice

\* the prompt of getNextAction(context, domState)
BuildPrompt(ctx, dom) ==
    [built |-> TRUE,
     task |-> ctx.task,
     plan |-> IF ctx.plan # NoPlan THEN ctx.plan ELSE "No plan available",
     history |-> RecentActions(ctx.history),
     elements |-> ElementsShown(dom.interactiveElements),
     excerpt |-> Slice(dom.pageText, 0, ExcerptLength),
     ellipsis |-> Len(dom.pageText) > ExcerptLength]

\* the AgentSteps a history is made of: a click that worked, a click that failed
HistoryEntries ==
    { [action |-> [action_type |-> "click", param |-> "#selector"],
       success |-> TRUE, error |-> ABSENT],
      [action |-> [action_type |-> "click", param |-> "#selector"],
       success |-> FALSE, error |-> ActionError] }

Histories == UNION {[1..n -> HistoryEntries] : n \in 0..MaxHistory}

\* a snapshot with k interactive elements and n characters of page text
Snapshot(k, n) ==
    [interactiveElements |->
         [i \in 1..k |-> [index |-> i - 1, tag |-> "button", selector |-> i]],
     pageText |-> [i \in 1..n |-> i % 10]]

Snapshots ==
    {Snapshot(k, n) : k \in {0, 1, MAX_INTERACTIVE_ELEMENTS, MAX_INTERACTIVE_ELEMENTS + 2},
                      n \in {0, ExcerptLength, ExcerptLength + 1, 2000}}

\* the arguments of a getNextAction call
PromptInit ==
    /\ ExecutorInit
    /\ contentCall = NoContentCall
    /\ manager = InitialManager
    /\ offscreen = InitialOffscreen
    /\ \E h \in Histories, d \in Snapshots :
          navigatorCall = [context |-> [null |-> FALSE, task |-> 1, plan |-> 1,
                                        history |-> h],
                           domState |-> d, prompt |-> NoPrompt]

\* navigator.getNextAction(context, domState) up to this.invoke(prompt)
GetNextAction ==
    /\ ~navigatorCall.prompt.built
    /\ navigatorCall' =
           [navigatorCall EXCEPT
               !.prompt = BuildPrompt(navigatorCall.context, navigatorCall.domState)]
    /\ UNCHANGED <<isRunning, shouldCancel, context, plannerTranscript,
                   navigatorTranscript, llm, progressCallbacks, hasGPU, pc, step,
                   replans, consecutiveFailures, action, domState, trigger,
                   replanArgs, tryIdx, reports, callsMade, returned, events,
                   cleanupAt, cancelStep, eventListeners, deliveries,
                   listenerErrors, outstanding, contentCall, manager, offscreen>>

PromptSpec == PromptInit /\ [][GetNextAction]_vars

----------------------------------------------------------------------------
(* Content side: executeAction *)

\* what an action implementation does: it returns an ActionResult or throws
Ok(data) == [threw |-> FALSE, success |-> TRUE, data |-> data, error |-> ABSENT]
Failed(error) == [threw |-> FALSE, success |-> FALSE, data |-> ABSENT, error |-> error]
Throw(message) == [threw |-> TRUE, message |-> message]

\* `params` itself may be undefined; reading a property of undefined throws
NoParams == [given |-> FALSE]
Params(selector, text) == [given |-> TRUE, selector |-> selector, text |-> text]

\* resolveSelector: null for an empty selector, else what the page holds
ResolveSelector(selector, page) ==
    IF selector = ABSENT \/ selector = "" THEN "none" ELSE page.element

\* executeClick
ExecuteClick(selector, page) ==
    LET element == ResolveSelector(selector, page)
    IN  IF element = "none" THEN Failed(<<"Element not found: ", selector>>)
        ELSE IF element = "svg"
             THEN Failed(<<"Element is not interactive: ", selector>>)
             ELSE IF page.faulty THEN Throw("DOM exception")
                  ELSE Ok(<<"Clicked element: ", selector>>)

\* executeType; `for (const char of text)` throws when text is undefined
ExecuteType(selector, text, page) ==
    LET element == ResolveSelector(selector, page)
    IN  IF element = "none" THEN Failed(<<"Element not found: ", selector>>)
        ELSE IF element # "input"
             THEN Failed(<<"Element is not an input: ", selector>>)
             ELSE IF page.faulty THEN Throw("DOM exception")
                  ELSE IF text = ABSENT THEN Throw("text is not iterable")
                       ELSE Ok(<<"Typed into ", selector>>)

\* executeExtract
ExecuteExtract(selector, page) ==
    IF selector = ABSENT \/ selector \in {"", "body", "page"}
    THEN IF page.faulty THEN Throw("DOM exception") ELSE Ok("page text")
    ELSE LET element == ResolveSelector(selector, page)
         IN  IF element = "none" THEN Failed(<<"Element not found: ", selector>>)
             ELSE Ok("element text")

\* executeScroll
ExecuteScroll(page) == IF page.faulty THEN Throw("DOM exception") ELSE Ok("Scrolled")

\* executeWait: a fixed wait without a selector, else polling until the
\* element is there or the timeout has passed
ExecuteWait(selector, page) ==
    IF selector = ABSENT \/ selector = "" THEN Ok("Waited")
    ELSE IF ResolveSelector(selector, page) # "none"
         THEN Ok(<<"Found element: ", selector>>)
         ELSE Failed(<<"Timeout waiting for element: ", selector>>)

\* the switch of executeAction
Dispatch(actionType, params, page) ==
    IF actionType \in {"click", "type", "extract", "scroll", "wait"} /\ ~params.given
    THEN Throw("Cannot read properties of undefined")
    ELSE CASE actionType = "click" -> ExecuteClick(params.selector, page)
           [] actionType = "type" -> ExecuteType(params.selector, params.text, page)
           [] actionType = "extract" -> ExecuteExtract(params.selector, page)
           [] actionType = "scroll" -> ExecuteScroll(page)
           [] actionType = "wait" -> ExecuteWait(params.selector, page)
           [] actionType = "navigate" -> Ok("Navigation handled by service worker")
           [] OTHER -> Failed(<<"Unknown action type: ", actionType>>)

\* the promise an async function returns
Settle(r) ==
    IF r.threw
    THEN [kind |-> "rejected", error |-> r.message]
    ELSE [kind |-> "resolved",
          result |-> [success |-> r.success, data |-> r.data, error |-> r.error]]

\* executeAction without its try/catch
ExecuteActionUncaught(actionType, params, page) ==
    Settle(Dispatch(actionType, params, page))

\* executeAction: try { switch ... } catch (error) { return { success: false, error } }
ExecuteAction(actionType, params, page) ==
    LET r == Dispatch(actionType, params, page)
    IN  Settle(IF r.threw THEN Failed(r.message) ELSE r)

ActionTypes ==
    {"click", "type", "extract", "scroll", "wait", "navigate", "done", "fail", "hover"}

ParamMappings ==
    {NoParams}
    \cup {Params(s, x) : s \in {ABSENT, "", "body", "#selector"}, x \in {ABSENT, "hello"}}

\* the page: what the selector resolves to, and whether its DOM calls throw
Pages == [element : {"none", "input", "button", "svg"}, faulty : BOOLEAN]

\* the arguments of an executeAction call and the page it runs in
ContentInit ==
    /\ ExecutorInit
    /\ navigatorCall = NoNavigatorCall
    /\ manager = InitialManager
    /\ offscreen = InitialOffscreen
    /\ \E a \in ActionTypes, m \in ParamMappings, g \in Pages :
          contentCall = [actionType |-> a, params |-> m, page |-> g,
                         outcome |-> NoOutcome]

\* executeAction(actionType, params) runs to its end
ExecuteActionCall ==
    /\ contentCall.outcome = NoOutcome
    /\ contentCall' =
           [contentCall EXCEPT
               !.outcome = ExecuteAction(contentCall.actionType, contentCall.params,
                                         contentCall.page)]
    /\ UNCHANGED <<isRunning, shouldCancel, context, plannerTranscript,
                   navigatorTranscript, llm, progressCallbacks, hasGPU, pc, step,
                   replans, consecutiveFailures, action, domState, trigger,
                   replanArgs, tryIdx, reports, callsMade, returned, events,
                   cleanupAt, cancelStep, eventListeners, deliveries,
                   listenerErrors, outstanding, navigatorCall, manager, offscreen>>

ContentSpec == ContentInit /\ [][ExecuteActionCall]_vars

----------------------------------------------------------------------------
(* LLMEngineManager under several callers *)

\* the error CreateExtensionServiceWorkerMLCEngine(model) rejects with
LoadErrorOf(model) == <<"failed to load", model>>

\* doInitialize(modelId) up to its first await
StartRun(m, modelId, gpu) ==
    LET st == [m.state EXCEPT !.isLoading = TRUE, !.error = "", !.loadProgress = 0]
    IN  IF ~gpu
        THEN [m EXCEPT !.state = [st EXCEPT !.error = WebGPUError, !.isLoading = FALSE],
                       !.runs = Append(@, [modelId |-> modelId, tryIdx |-> 0,
                                           status |-> "rejected",
                                           error |-> WebGPUError])]
        ELSE [m EXCEPT !.state = st,
                       !.runs = Append(@, [modelId |-> modelId, tryIdx |-> 1,
                                           status |-> "creating", error |-> ""])]

\* LLMEngineManager.initialize(modelId): the promise the caller gets (awaits:
\* the run it belongs to, 0 for a call that returns at once)
InitializeBy(m, modelId, gpu) ==
    IF m.initializationPromise # 0 /\ m.state.currentModel = modelId
    THEN [m EXCEPT !.calls = Append(@, [modelId |-> modelId,
                                        awaits |-> m.initializationPromise,
                                        started |-> FALSE])]
    ELSE IF m.state.engine # <<>> /\ m.state.currentModel = modelId
         THEN [m EXCEPT !.calls = Append(@, [modelId |-> modelId, awaits |-> 0,
                                             started |-> FALSE])]
         ELSE LET r == Len(m.runs) + 1
              IN  [StartRun(m, modelId, gpu)
                     EXCEPT !.initializationPromise = r,
                            !.calls = Append(@, [modelId |-> modelId, awaits |-> r,
                                                 started |-> TRUE])]

\* the model ids initialize is called with
RequestedModels == {DEFAULT_MODEL} \cup {FALLBACK_MODELS[i] : i \in DOMAIN FALLBACK_MODELS}

\* the variables the manager's own specification leaves alone
ManagerFrame ==
    UNCHANGED <<isRunning, shouldCancel, context, plannerTranscript,
                navigatorTranscript, llm, progressCallbacks, hasGPU, pc, step,
                replans, consecutiveFailures, action, domState, trigger,
                replanArgs, tryIdx, reports, callsMade, returned, events,
                cleanupAt, cancelStep, eventListeners, deliveries,
                listenerErrors, outstanding, navigatorCall, contentCall, offscreen>>

\* some caller calls llmEngine.initialize(modelId)
InitializeCall(modelId) ==
    /\ Len(manager.calls) < MaxInitCalls
    /\ manager' = InitializeBy(manager, modelId, hasGPU)
    /\ ManagerFrame

\* the model that a run is creating an engine for
Candidate(run) == ModelsToTry(run.modelId)[run.tryIdx]

\* CreateExtensionServiceWorkerMLCEngine resolves for run r
EngineCreated(r) ==
    /\ r \in DOMAIN manager.runs
    /\ manager.runs[r].status = "creating"
    /\ LET model == Candidate(manager.runs[r])
       IN  manager' =
               [manager EXCEPT !.state.engine = <<model, r>>,
                               !.state.currentModel = model,
                               !.state.isLoading = FALSE,
                               !.state.loadProgress = 1,
                               !.runs[r].status = "resolved"]
    /\ ManagerFrame

\* CreateExtensionServiceWorkerMLCEngine rejects for run r
EngineCreationFails(r) ==
    /\ r \in DOMAIN manager.runs
    /\ manager.runs[r].status = "creating"
    /\ LET run == manager.runs[r]
       IN  IF run.tryIdx = Len(ModelsToTry(run.modelId))
           THEN manager' =
                    [manager EXCEPT !.state.error = LoadErrorOf(Candidate(run)),
                                    !.state.isLoading = FALSE,
                                    !.runs[r].status = "rejected",
                                    !.runs[r].error = LoadErrorOf(Candidate(run))]
           ELSE manager' = [manager EXCEPT !.runs[r].tryIdx = @ + 1]
    /\ ManagerFrame

ManagerNext ==
    \/ \E modelId \in RequestedModels : InitializeCall(modelId)
    \/ \E r \in 1..MaxInitCalls : EngineCreated(r)
    \/ \E r \in 1..MaxInitCalls : EngineCreationFails(r)

ManagerSpec == Init /\ [][ManagerNext]_vars

----------------------------------------------------------------------------
(* The offscreen host: INIT_LLM and LLM_STATUS *)

\* sendResponse(reply) for the message numbered msg
SendResponse(o, msg, reply) ==
    [o EXCEPT !.replies = Append(@, [to |-> msg, reply |-> reply])]

\* a handleInit that does not look at isInitializing
HandleInitUnguarded(o, modelId, msg) ==
    IF o.engine # <<>>
    THEN SendResponse(o, msg, [success |-> TRUE, error |-> ""])
    ELSE [o EXCEPT !.isInitializing = TRUE,
                   !.creations = Append(@, [modelId |-> modelId, for |-> msg,
                                            status |-> "creating"])]

\* handleInit(modelId) up to its await, for the message numbered msg
HandleInit(o, modelId, msg) ==
    IF o.engine # <<>>
    THEN SendResponse(o, msg, [success |-> TRUE, error |-> ""])
    ELSE IF o.isInitializing
         THEN SendResponse(o, msg, [success |-> FALSE, error |-> AlreadyInitializing])
         ELSE [o EXCEPT !.isInitializing = TRUE,
                        !.creations = Append(@, [modelId |-> modelId, for |-> msg,
                                                 status |-> "creating"])]

\* the variables the offscreen host's own specification leaves alone
OffscreenFrame ==
    UNCHANGED <<isRunning, shouldCancel, context, plannerTranscript,
                navigatorTranscript, llm, progressCallbacks, hasGPU, pc, step,
                replans, consecutiveFailures, action, domState, trigger,
                replanArgs, tryIdx, reports, callsMade, returned, events,
                cleanupAt, cancelStep, eventListeners, deliveries,
                listenerErrors, outstanding, navigatorCall, contentCall, manager>>

\* the listener receives {type: 'INIT_LLM', modelId}
ReceiveInit(modelId) ==
    /\ Len(offscreen.received) < MaxMessages
    /\ LET msg == Len(offscreen.received) + 1
           o == [offscreen EXCEPT
                    !.received = Append(@, [type |-> "INIT_LLM", modelId |-> modelId])]
       IN  offscreen' = HandleInit(o, modelId, msg)
    /\ OffscreenFrame

\* the listener receives {type: 'LLM_STATUS'}
ReceiveStatus ==
    /\ Len(offscreen.received) < MaxMessages
    /\ LET msg == Len(offscreen.received) + 1
           o == [offscreen EXCEPT
                    !.received = Append(@, [type |-> "LLM_STATUS", modelId |-> ""])]
       IN  offscreen' =
               SendResponse(o, msg,
                   [success |-> TRUE,
                    ready |-> (o.engine # <<>> /\ ~o.isInitializing),
                    initializing |-> o.isInitializing])
    /\ OffscreenFrame

\* CreateMLCEngine resolves for creation c: handleInit returns {success: true}
CreateMLCEngineResolves(c) ==
    /\ c \in DOMAIN offscreen.creations
    /\ offscreen.creations[c].status = "creating"
    /\ offscreen' =
           SendResponse([offscreen EXCEPT
                            !.engine = <<offscreen.creations[c].modelId, c>>,
                            !.isInitializing = FALSE,
                            !.creations[c].status = "resolved"],
                        offscreen.creations[c].for,
                        [success |-> TRUE, error |-> ""])
    /\ OffscreenFrame

\* CreateMLCEngine rejects for creation c: handleInit returns the error
CreateMLCEngineRejects(c) ==
    /\ c \in DOMAIN offscreen.creations
    /\ offscreen.creations[c].status = "creating"
    /\ offscreen' =
           SendResponse([offscreen EXCEPT
                            !.isInitializing = FALSE,
                            !.creations[c].status = "rejected"],
                        offscreen.creations[c].for,
                        [success |-> FALSE,
                         error |-> CreateMLCEngineError])
    /\ OffscreenFrame

OffscreenNext ==
    \/ \E modelId \in RequestedModels : ReceiveInit(modelId)
    \/ ReceiveStatus
    \/ \E c \in 1..MaxMessages : CreateMLCEngineResolves(c)
    \/ \E c \in 1..MaxMessages : CreateMLCEngineRejects(c)

OffscreenSpec == Init /\ [][OffscreenNext]_vars

\* the shared engine reports loading progress when no initialization of the
\* Executor is awaited (a load started by another user of llmEngine)
OtherProgressReport ==
    /\ pc # "init"
    /\ reports < MaxProgress
    /\ Commit(NotifyProgress([Cur EXCEPT !.llm.loadProgress = 50,
                                         !.reports = @ + 1], 50))

SharedEngineNext ==
    \/ Next
    \/ OtherProgressReport

\* the Executor on an engine that other users load too
SharedEngineSpec == Init /\ [][SharedEngineNext]_vars

\* every provider call that is awaited eventually resolves or rejects
FairSpec == Spec /\ WF_vars(ProviderSettles)

----------------------------------------------------------------------------
(* Reading the event log *)

Last(seq) == seq[Len(seq)]
EventIdx(t) == {i \in DOMAIN events : events[i].type = t}
Count(t) == Cardinality(EventIdx(t))
LastIs(ev, t) == ev # <<>> /\ Last(ev).type = t

\* the events of one task end with TASK_COMPLETE or TASK_FAILED
NothingAfter(t) ==
    (LastIs(events, t) /\ callsMade' = callsMade) => events' = events

\* the largest of a set of event indices (0: none)
LastIdx(I) == IF I = {} THEN 0 ELSE CHOOSE i \in I : \A j \in I : j <= i

\* unsuccessful STEP_RESULTs after index k
FailuresAfter(ev, k) ==
    Cardinality({i \in (k + 1)..Len(ev) : ev[i].type = "STEP_RESULT" /\ ~ev[i].ok})

\* a step that records an unsuccessful ActionResult
FailureRecorded ==
    \/ ActionThrows
    \/ \E r \in ActionResults : ~r.success /\ ActionReturns(r)

\* a step in which the Navigator returns a fail action
FailActionReturned ==
    \E a \in NavigatorActions : a.action_type = "fail" /\ NavigatorReturns(a)

----------------------------------------------------------------------------
(* C1: in one executeTask run the number of replans (REPLAN events, the
   replans counter), over the three triggers together, never exceeds
   MAX_REPLANS. *)
C1_ReplansWithinBudget ==
    /\ replans <= MAX_REPLANS
    /\ Count("REPLAN") <= MAX_REPLANS
    /\ pc \in {"snapshot", "navigate", "act", "replan"} => replans = Count("REPLAN")

\* the budget is used up by two different triggers and the task goes on
C1_Witness ==
    /\ Count("REPLAN") = MAX_REPLANS
    /\ \E i \in EventIdx("REPLAN") : events[i].prefix = "Navigator error: "
    /\ \E i \in EventIdx("REPLAN") : events[i].s = ActionError
    /\ pc = "navigate"

(* C2 as claimed: once MAX_REPLANS replans are done, the next trigger of any
   of the three kinds (Navigator failure, fail action, failure counter
   reaching 3) ends the task as a failure. *)
C2_AnyTriggerFails ==
    [][ ( /\ replans = MAX_REPLANS
          /\ \/ NavigatorFails
             \/ FailActionReturned
             \/ (consecutiveFailures + 1 = StreakThreshold /\ FailureRecorded) )
        => (~isRunning' /\ returned'.kind = "rejected" /\ LastIs(events', "TASK_FAILED")
            /\ Last(events').s = returned'.value /\ returned'.value # MaxStepsError)
      ]_vars

(* C2 amended: once MAX_REPLANS replans are done, a Navigator failure or a
   fail action ends the task as a failure: TASK_FAILED with the triggering
   reason is emitted, executeTask rejects with it, and nothing is emitted
   after it.  (The failure counter reaching 3 then triggers nothing.) *)
C2_BudgetExhaustedFails ==
    [][ /\ (replans = MAX_REPLANS /\ NavigatorFails)
           => /\ events' = Append(events, TaskFailed("Navigator error: ", NavigatorError))
              /\ returned' = [kind |-> "rejected", value |-> NavigatorError]
              /\ ~isRunning'
        /\ \A a \in NavigatorActions :
             (replans = MAX_REPLANS /\ a.action_type = "fail" /\ NavigatorReturns(a))
             => /\ events' = events \o <<StepAction(a), TaskFailed("", a.param)>>
                /\ returned' = [kind |-> "rejected", value |-> a.param]
                /\ ~isRunning'
        /\ NothingAfter("TASK_FAILED")
      ]_vars

\* a fail action met an exhausted budget
C2_Witness ==
    /\ Count("REPLAN") = MAX_REPLANS
    /\ LastIs(events, "TASK_FAILED")
    /\ Last(events).s = "search box not found"
    /\ returned = [kind |-> "rejected", value |-> "search box not found"]

(* C3: while a task runs, context.history has at most MAX_STEPS entries, at
   most one per iteration begun, and a step only ever appends one entry to
   it. *)
C3_HistoryAppendOnly ==
    /\ [](~context.null =>
            /\ Len(context.history) <= MAX_STEPS
            /\ Len(context.history) <= Count("STEP_START"))
    /\ [][ (~context.null /\ ~context'.null /\ callsMade' = callsMade)
           => \/ context'.history = context.history
              \/ /\ Len(context'.history) = Len(context.history) + 1
                 /\ SubSeq(context'.history, 1, Len(context.history)) = context.history
                 /\ pc = "act"
         ]_vars

\* the history is full while the task still runs
C3_Witness ==
    ~context.null /\ Len(context.history) = MAX_STEPS /\ isRunning

(* C4 as claimed: the third of three unsuccessful ActionResults in a row (no
   successful result and no replan of their own in between), recorded while
   fewer than MAX_REPLANS replans are done, is followed at once by a REPLAN. *)
C4_ThreeFailuresReplan ==
    [][ ( /\ FailureRecorded
          /\ replans < MAX_REPLANS
          /\ FailuresAfter(events,
                LastIdx({i \in DOMAIN events :
                    \/ (events[i].type = "STEP_RESULT" /\ events[i].ok)
                    \/ (events[i].type = "REPLAN" /\ events[i].s = ActionError)}))
                = StreakThreshold - 1 )
        => (pc' = "replan" /\ LastIs(events', "REPLAN"))
      ]_vars

(* C4 amended: the third of three unsuccessful ActionResults in a row, with
   no successful result and no replan caused by a fail action or by the
   streak in between, recorded while fewer than MAX_REPLANS replans are done,
   is followed at once by exactly one REPLAN, and the failure counter is 0
   when the next iteration starts. *)
C4_StreakReplansOnce ==
    [][ /\ ( /\ FailureRecorded
             /\ replans < MAX_REPLANS
             /\ FailuresAfter(events,
                   LastIdx({i \in DOMAIN events :
                       \/ (events[i].type = "STEP_RESULT" /\ events[i].ok)
                       \/ (events[i].type = "REPLAN" /\ events[i].prefix = "")}))
                   = StreakThreshold - 1 )
           => /\ events' = events \o <<StepResult([success |-> FALSE]),
                                       Replan("", ActionError)>>
              /\ pc' = "replan" /\ trigger' = "streak"
              /\ replans' = replans + 1
        /\ (trigger = "streak" /\ ReplanReturns /\ isRunning')
           => /\ consecutiveFailures' = 0
              /\ events' = events \o <<PlanComplete(replans + 1), StepStart(step + 2)>>
      ]_vars

\* three failures with a Navigator-error replan among them, then the streak's replan
C4_Witness ==
    /\ pc = "replan" /\ trigger = "streak"
    /\ Count("REPLAN") = 2
    /\ Len(context.history) = StreakThreshold

(* C5 as claimed: a done action ends the task in its iteration with
   TASK_COMPLETE and the resolved value equal to the result parameter, the
   default text only when the parameter is absent. *)
C5_DoneResultIsParameter ==
    [][ \A a \in NavigatorActions :
          (a.action_type = "done" /\ NavigatorReturns(a))
          => LET result == IF a.param = ABSENT THEN DefaultResult ELSE a.param
             IN  /\ events' = events \o <<StepAction(a), TaskComplete(result)>>
                 /\ returned' = [kind |-> "resolved", value |-> result]
      ]_vars

(* C5 amended: a done action at any step ends the task in its iteration:
   TASK_COMPLETE carries the result parameter, or the default text when the
   parameter is absent or the empty string; executeTask resolves with that
   string; nothing is emitted afterwards. *)
C5_DoneTerminates ==
    [][ /\ \A a \in NavigatorActions :
             (a.action_type = "done" /\ NavigatorReturns(a))
             => LET result == IF a.param \in {ABSENT, ""} THEN DefaultResult ELSE a.param
                IN  /\ events' = events \o <<StepAction(a), TaskComplete(result)>>
                    /\ returned' = [kind |-> "resolved", value |-> result]
                    /\ ~isRunning' /\ pc' = "idle"
        /\ NothingAfter("TASK_COMPLETE")
      ]_vars

\* done in the last step, the replan budget used up, right after a failed action
C5_Witness ==
    /\ LastIs(events, "TASK_COMPLETE")
    /\ returned = [kind |-> "resolved", value |-> "the result"]
    /\ Count("STEP_START") = MAX_STEPS
    /\ Count("REPLAN") = MAX_REPLANS
    /\ \E i \in EventIdx("STEP_RESULT") :
          ~events[i].ok /\ \A j \in EventIdx("STEP_RESULT") : j <= i

(* C6: cancel() called while step N is in progress (after STEP_START(N),
   whichever provider call is in flight): no STEP_START with a step number
   above N is ever emitted for the task. *)
C6_NoStepAfterCancel ==
    cancelStep >= 1 => \A i \in EventIdx("STEP_START") : events[i].n <= cancelStep

\* cancelled in a step that replanned; the task ended at the next loop top
C6_Witness ==
    /\ returned = [kind |-> "rejected", value |-> CancelledError]
    /\ cancelStep \in 1..(MAX_STEPS - 1)
    /\ Count("STEP_START") = cancelStep
    /\ LastIs(events, "PLAN_COMPLETE")
    /\ Count("REPLAN") >= 1

(* C7: at most one task is active: isRunning holds exactly while a call is
   in flight, and an executeTask call made meanwhile is rejected with the
   already-running error and starts nothing (no initialization, planning or
   step, no change of the running task). *)
C7_SingleActiveTask ==
    /\ [](isRunning <=> pc # "idle")
    /\ [][ (pc # "idle" /\ callsMade' # callsMade)
           => /\ returned' = [kind |-> "rejected", value |-> AlreadyRunningError]
              /\ UNCHANGED <<isRunning, shouldCancel, context, plannerTranscript,
                             navigatorTranscript, llm, progressCallbacks, pc, step,
                             replans, consecutiveFailures, action, domState, trigger,
                             replanArgs, tryIdx, reports, events, cleanupAt>>
         ]_vars

\* a second call was rejected while the first awaits the action provider
C7_Witness ==
    /\ returned = [kind |-> "rejected", value |-> AlreadyRunningError]
    /\ isRunning /\ pc = "act" /\ callsMade = 2

\* the errors of the fatal terminations: already running, model unavailable,
\* step budget, replan budget (Navigator error or fail action with no budget left)
StartedFatalErrors ==
    {WebGPUError, LoadError, MaxStepsError, NavigatorError, "search box not found"}

(* C8 as claimed: every fatal termination, the already-running rejection
   included, rejects the call and has emitted exactly one TASK_FAILED. *)
C8_EveryFatalEmits ==
    (returned.kind = "rejected"
       /\ returned.value \in StartedFatalErrors \cup {AlreadyRunningError})
    => Count("TASK_FAILED") = 1

(* C8 amended: every fatal termination of a started task (model unavailable
   or initialization failure, step budget exceeded, replan budget exceeded)
   rejects the call and emits exactly one TASK_FAILED, before the cleanup
   runs; the already-running rejection emits no event and runs no cleanup. *)
C8_StartedFatalEmits ==
    /\ (returned.kind = "rejected" /\ returned.value \in StartedFatalErrors)
       => /\ Count("TASK_FAILED") = 1
          /\ LastIs(events, "TASK_FAILED")
          /\ Last(events).s = returned.value
          /\ cleanupAt = Len(events)
    /\ (returned.kind = "rejected" /\ returned.value = AlreadyRunningError)
       => /\ Count("TASK_FAILED") = 0
          /\ cleanupAt = -1
          /\ isRunning

\* the step budget ran out
C8_Witness ==
    /\ returned = [kind |-> "rejected", value |-> MaxStepsError]
    /\ Count("TASK_FAILED") = 1
    /\ cleanupAt = Len(events)

(* C9: on every exit path of a started task, when executeTask returns or
   throws both transcripts are empty, the context is null and isRunning is
   false. *)
C9_ResetOnEveryExit ==
    /\ []((returned.kind # "none" /\ returned.value # AlreadyRunningError)
            => /\ plannerTranscript = <<>>
               /\ navigatorTranscript = <<>>
               /\ context.null
               /\ ~isRunning)
    /\ [][ (isRunning /\ ~isRunning')
           => /\ returned'.kind \in {"resolved", "rejected"}
              /\ returned'.value # AlreadyRunningError
              /\ plannerTranscript' = <<>>
              /\ navigatorTranscript' = <<>>
              /\ context'.null
              /\ pc' = "idle"
         ]_vars

\* a replan failed after the Navigator had been asked several times
C9_Witness ==
    /\ returned = [kind |-> "rejected", value |-> PlannerError]
    /\ Count("REPLAN") = MAX_REPLANS
    /\ Count("STEP_ACTION") >= 2
    /\ context.null /\ navigatorTranscript = <<>> /\ plannerTranscript = <<>>

\* a step that completes an iteration without ending the task by itself
IterationCompletes ==
    \/ ReplanReturns
    \/ /\ pc' # "replan"
       /\ \/ ActionThrows
          \/ \E r \in ActionResults : ActionReturns(r)

(* C10: if every awaited provider call eventually returns or fails, every
   started executeTask call eventually resolves or rejects; when the
   MAX_STEPS-th iteration completes, the task fails with the fixed
   maximum-steps message and a TASK_FAILED event. *)
C10_Terminates ==
    /\ (isRunning ~> (~isRunning /\ returned.kind \in {"resolved", "rejected"}))
    /\ [][ (step = MAX_STEPS - 1 /\ IterationCompletes)
           => /\ LastIs(events', "TASK_FAILED")
              /\ Last(events') = TaskFailed("", MaxStepsError)
              /\ returned' = [kind |-> "rejected", value |-> MaxStepsError]
              /\ ~isRunning'
         ]_vars

\* MAX_STEPS iterations ran and the task failed with the maximum-steps message
C10_Witness ==
    /\ ~isRunning
    /\ returned.value = MaxStepsError
    /\ Count("STEP_START") = MAX_STEPS
    /\ LastIs(events, "TASK_FAILED")
    /\ Last(events).s = MaxStepsError

(* C11: executeTask resolves exactly when the task emitted TASK_COMPLETE, and
   with that event's result; TASK_COMPLETE and TASK_FAILED are never both
   emitted, each at most once, and no event follows either of them. *)
C11_ResolvesIffComplete ==
    /\ (returned.kind = "resolved") <=> (Count("TASK_COMPLETE") >= 1)
    /\ returned.kind = "resolved" => Last(events) = TaskComplete(returned.value)
    /\ Count("TASK_COMPLETE") + Count("TASK_FAILED") <= 1
    /\ \A i \in EventIdx("TASK_COMPLETE") \cup EventIdx("TASK_FAILED") : i = Len(events)

\* a task that replanned once resolved with the default text
C11_Witness ==
    /\ returned = [kind |-> "resolved", value |-> DefaultResult]
    /\ Last(events) = TaskComplete(DefaultResult)
    /\ Count("REPLAN") = 1
    /\ Count("TASK_FAILED") = 0

(* C12: a snapshot provider failure in any iteration puts the placeholder
   snapshot in place and calls the Navigator in the same iteration; it ends
   nothing, replans nothing, emits nothing and leaves the step, replan and
   failure counters, the history and the plan as they are. *)
C12_SnapshotFailureRecovered ==
    [][ GetDOMStateFails
        => /\ domState' = PlaceholderState
           /\ pc' = "navigate"
           /\ navigatorTranscript' = Append(navigatorTranscript, "getNextAction")
           /\ isRunning' /\ returned' = returned
           /\ UNCHANGED <<step, replans, consecutiveFailures, context, events,
                          plannerTranscript, trigger>>
      ]_vars

\* the snapshot of step 3 failed and the Navigator's action for it is being applied
C12_Witness ==
    /\ domState = PlaceholderState
    /\ pc = "act"
    /\ step = 2
    /\ LastIs(events, "STEP_ACTION")

\* the AgentStep recorded for the action in hand when it fails with ActionError
FailedStep == [action |-> action, success |-> FALSE, error |-> ActionError]

(* C13: when the action provider throws, the error does not leave executeTask:
   STEP_RESULT with success false is emitted, an AgentStep with success false
   and the error message is appended to the history, and the failure counter
   goes up by one, as for a returned unsuccessful result. *)
C13_ThrownActionRecorded ==
    [][ ActionThrows
        => /\ returned'.value # ActionError
           /\ Len(events') > Len(events)
           /\ SubSeq(events', 1, Len(events) + 1)
                  = Append(events, StepResult([success |-> FALSE]))
           /\ isRunning' =>
                 /\ context'.history = Append(context.history, FailedStep)
                 /\ consecutiveFailures' = consecutiveFailures + 1
                 /\ pc' = "replan" <=> (consecutiveFailures + 1 >= StreakThreshold
                                         /\ replans < MAX_REPLANS)
                 /\ pc' = "replan" => replanArgs'.history = context'.history
           /\ ~isRunning' => returned'.value \in {MaxStepsError, CancelledError}
      ]_vars

\* three failed applications in a row from the start, and the streak's replan
C13_Witness ==
    /\ pc = "replan" /\ trigger = "streak"
    /\ Count("REPLAN") = 1
    /\ Len(context.history) = StreakThreshold
    /\ \A i \in DOMAIN context.history : context.history[i].error = ActionError

(* C14: a Navigator failure with fewer than MAX_REPLANS replans done does not
   fail the task: a replan with the error message as reason is started,
   nothing is appended to the history and no action is applied in that
   iteration, and when the new plan arrives the loop goes on with the next
   iteration.  A Navigator failure emits TASK_FAILED and rejects only with
   the budget exhausted. *)
C14_NavigatorFailureReplans ==
    [][ /\ (NavigatorFails /\ replans < MAX_REPLANS)
           => /\ isRunning' /\ returned' = returned
              /\ pc' = "replan" /\ trigger' = "navigator"
              /\ replans' = replans + 1
              /\ events' = Append(events, Replan("Navigator error: ", NavigatorError))
              /\ replanArgs' = [history |-> context.history, plan |-> context.plan,
                                reason |-> NavigatorError]
              /\ context' = context
        /\ (trigger = "navigator" /\ ReplanReturns)
           => /\ events'[Len(events) + 1] = PlanComplete(replans + 1)
              /\ isRunning' => /\ context'.history = context.history
                               /\ step' = step + 1
                               /\ pc' = "snapshot"
                               /\ Last(events') = StepStart(step + 2)
              /\ ~isRunning' => returned'.value \in {MaxStepsError, CancelledError}
        /\ (NavigatorFails /\ replans >= MAX_REPLANS)
           => /\ Last(events') = TaskFailed("Navigator error: ", NavigatorError)
              /\ returned' = [kind |-> "rejected", value |-> NavigatorError]
      ]_vars

\* step 1 ended in a Navigator failure and a replan; step 2 has begun with an empty history
C14_Witness ==
    /\ pc = "snapshot"
    /\ Last(events) = StepStart(2)
    /\ Count("REPLAN") = 1
    /\ Count("STEP_ACTION") = 0
    /\ context.history = <<>>
    /\ context.plan = 2

(* C15: a fail action returned while replan budget remains: Planner.replan is
   called with the history as it stood before the iteration (empty in step
   1), the plan in force and the action's reason; the Navigator's transcript
   is empty from then until the next getNextAction call puts its prompt in. *)
C15_FailActionReplans ==
    /\ [](pc \in {"snapshot", "navigate"} => Len(context.history) <= step)
    /\ [][ /\ pc \in {"snapshot", "navigate"} /\ isRunning' => context' = context
           /\ \A a \in NavigatorActions :
                (a.action_type = "fail" /\ NavigatorReturns(a) /\ replans < MAX_REPLANS)
                => /\ pc' = "replan" /\ trigger' = "fail"
                   /\ replanArgs' = [history |-> context.history,
                                     plan |-> context.plan, reason |-> a.param]
                   /\ step = 0 => replanArgs'.history = <<>>
                   /\ navigatorTranscript' = <<>>
                   /\ context' = context
           /\ (trigger = "fail" /\ ReplanReturns /\ isRunning')
                => pc' = "snapshot" /\ navigatorTranscript' = <<>>
           /\ (pc = "snapshot" /\ navigatorTranscript = <<>> /\ pc' = "navigate")
                => navigatorTranscript' = <<"getNextAction">>
         ]_vars

\* fail in step 1: the replan call carries an empty history and the reason
C15_Witness ==
    /\ pc = "replan" /\ trigger = "fail"
    /\ step = 0
    /\ replanArgs = [history |-> <<>>, plan |-> 1, reason |-> "search box not found"]
    /\ navigatorTranscript = <<>>

(* C16: every replan, whatever its trigger: the replan counter goes up by one,
   REPLAN is emitted, the Navigator's transcript is reset and Planner.replan
   is called with the context and the reason; when it returns the plan is
   replaced by the returned one and PLAN_COMPLETE with it is emitted before
   the next STEP_START, so a PLAN_COMPLETE lies between every REPLAN and any
   later STEP_START. *)
C16_ReplanSequence ==
    /\ [](\A i \in EventIdx("REPLAN") : \A j \in EventIdx("STEP_START") :
             i < j => \E k \in EventIdx("PLAN_COMPLETE") : i < k /\ k < j)
    /\ [](pc = "replan" <=> LastIs(events, "REPLAN") /\ isRunning)
    /\ [][ /\ (pc # "replan" /\ pc' = "replan")
              => /\ replans' = replans + 1
                 /\ Len(events') >= 1 /\ Last(events').type = "REPLAN"
                 /\ Last(events').s = replanArgs'.reason
                    \/ replanArgs'.reason = DefaultStreakReason
                 /\ navigatorTranscript' = <<>>
                 /\ plannerTranscript' = <<"replan">>
                 /\ replanArgs'.history = context'.history
                 /\ replanArgs'.plan = context.plan
                 /\ context'.plan = context.plan
                 /\ trigger' \in {"navigator", "fail", "streak"}
           /\ ReplanReturns
              => /\ events'[Len(events) + 1] = PlanComplete(replans + 1)
                 /\ isRunning' => /\ context'.plan = replans + 1
                                  /\ context'.plan # context.plan
                                  /\ Last(events') = StepStart(step + 2)
                                  /\ replans' = replans
         ]_vars

\* both replans of a task done, by different triggers, and the next step begun
C16_Witness ==
    /\ pc = "snapshot"
    /\ Count("REPLAN") = 2
    /\ Count("PLAN_COMPLETE") = 3
    /\ context.plan = 3
    /\ \E i \in EventIdx("REPLAN") : events[i].s = "search box not found"
    /\ \E i \in EventIdx("REPLAN") : events[i].s = ActionError
    /\ Last(events).type = "STEP_START"

\* the event types of the stepping phase
StepEvents == {"STEP_START", "STEP_ACTION", "STEP_RESULT"}

\* some event of type t lies before position i of the log
Before(t, i) == \E j \in EventIdx(t) : j < i

(* C17: the events of a task follow the lifecycle: INIT_START is the first
   event, INIT_COMPLETE comes before PLAN_START, PLAN_START before the first
   PLAN_COMPLETE, the first PLAN_COMPLETE before every STEP_START; in a step
   STEP_START comes before STEP_ACTION and STEP_ACTION before STEP_RESULT;
   a task whose initialization or first planning failed has no step event. *)
C17_LifecycleOrder ==
    /\ events # <<>> => events[1] = Ev("INIT_START") /\ Count("INIT_START") = 1
    /\ isRunning => events # <<>>
    /\ \A i \in EventIdx("PLAN_START") : Before("INIT_COMPLETE", i)
    /\ \A i \in EventIdx("PLAN_COMPLETE") : Before("PLAN_START", i)
    /\ \A i \in EventIdx("STEP_START") : Before("PLAN_COMPLETE", i)
    /\ \A i \in EventIdx("STEP_ACTION") : events[i - 1].type = "STEP_START"
    /\ \A i \in EventIdx("STEP_RESULT") : events[i - 1].type = "STEP_ACTION"
    /\ \A i \in EventIdx("TASK_FAILED") :
          events[i].prefix \in {"LLM initialization failed: ", "Planning failed: "}
          => \A j \in DOMAIN events : events[j].type \notin StepEvents \cup {"REPLAN"}
    /\ \A i \in EventIdx("TASK_FAILED") :
          events[i].prefix = "LLM initialization failed: "
          => Count("INIT_COMPLETE") = 0 /\ Count("PLAN_START") = 0

\* a task with load progress, two applied actions and a replan
C17_Witness ==
    /\ Len(events) >= 2 /\ events[2].type = "INIT_PROGRESS"
    /\ Count("STEP_RESULT") = 2
    /\ Count("REPLAN") = 1
    /\ Count("STEP_START") = 4

\* the operational decisions announced so far
OperationalActions ==
    {i \in EventIdx("STEP_ACTION") : events[i].s \notin {"done", "fail"}}

(* C18: the Navigator's action is handed to the action provider exactly when
   it is neither done nor fail; an operational action is applied once, in
   the iteration that chose it, and one AgentStep holding it is appended to
   the history when its result is known, success or failure; done and fail
   actions are not applied and not appended. *)
C18_OnlyOperationalApplied ==
    /\ [](~context.null =>
            /\ Len(context.history) = Count("STEP_RESULT")
            /\ Cardinality(OperationalActions)
                  = Len(context.history) + (IF pc = "act" THEN 1 ELSE 0)
            /\ \A i \in DOMAIN context.history :
                  context.history[i].action.action_type \notin {"done", "fail"})
    /\ [][ /\ \A a \in NavigatorActions :
                NavigatorReturns(a)
                => /\ pc' = "act" <=> a.action_type \notin {"done", "fail"}
                   /\ pc' = "act" => action' = a /\ step' = step
                   /\ isRunning' => context'.history = context.history
           /\ pc' = "act" => pc \in {"navigate", "act"}
           /\ (pc = "act" /\ pc' # "act")
                => /\ events'[Len(events) + 1].type = "STEP_RESULT"
                   /\ isRunning' =>
                        /\ Len(context'.history) = Len(context.history) + 1
                        /\ Last(context'.history).action = action
                        /\ Last(context'.history).success
                              = events'[Len(events) + 1].ok
                        /\ step' = step + 1 \/ pc' = "replan"
         ]_vars

\* two actions applied and recorded, a fail action in between
C18_Witness ==
    /\ pc = "snapshot"
    /\ Len(context.history) = 2
    /\ context.history[1].success /\ ~context.history[2].success
    /\ Count("STEP_ACTION") = 3
    /\ \E i \in EventIdx("STEP_ACTION") : events[i].s = "fail"

\* the events a step adds to the log of the running task
NewEvents == SubSeq(events', Len(events) + 1, Len(events'))

(* C19: cancel() only sets the flag.  The provider call in flight completes
   and its outcome is processed as without the flag (the Navigator is still
   called after the snapshot, the action's result is still announced and
   recorded, a done action still resolves the task); the call is rejected
   with the cancellation error only at the head of the next iteration, with
   no TASK_FAILED and no further STEP_START. *)
C19_CancelIsCooperative ==
    [][ /\ Cancel
           => /\ shouldCancel'
              /\ UNCHANGED <<isRunning, context, plannerTranscript, navigatorTranscript,
                             llm, pc, step, replans, consecutiveFailures, action,
                             domState, trigger, replanArgs, returned, events>>
        /\ (shouldCancel /\ pc = "init" /\ CreateEngineReturns) => pc' = "plan"
        /\ (shouldCancel /\ pc = "snapshot" /\ pc' # pc)
           => pc' = "navigate" /\ events' = events
        /\ \A a \in NavigatorActions :
             (shouldCancel /\ NavigatorReturns(a))
             => /\ a.action_type = "done"
                   => returned' = [kind |-> "resolved", value |-> DoneResult(a)]
                /\ a.action_type = "click" => pc' = "act" /\ isRunning'
                /\ (a.action_type = "fail" /\ replans < MAX_REPLANS) => pc' = "replan"
        /\ \A r \in ActionResults :
             (shouldCancel /\ ActionReturns(r))
             => /\ NewEvents[1] = StepResult(r)
                /\ pc' = "replan"
                   => replanArgs'.history
                        = Append(context.history,
                                 [action |-> action, success |-> r.success,
                                  error |-> r.error])
                /\ (pc' # "replan" /\ step + 1 < MAX_STEPS)
                   => /\ returned' = [kind |-> "rejected", value |-> CancelledError]
                      /\ NewEvents = <<StepResult(r)>>
        /\ (shouldCancel /\ ReplanReturns /\ step + 1 < MAX_STEPS)
           => /\ returned' = [kind |-> "rejected", value |-> CancelledError]
              /\ NewEvents = <<PlanComplete(replans + 1)>>
        /\ (shouldCancel /\ CreatePlanReturns)
           => /\ returned' = [kind |-> "rejected", value |-> CancelledError]
              /\ NewEvents = <<PlanComplete(1)>>
        /\ (isRunning /\ ~isRunning' /\ returned'.value = CancelledError)
           => /\ shouldCancel
              /\ pc \in {"plan", "act", "replan"}
              /\ Len(NewEvents) = 1
              /\ NewEvents[1].type \in {"PLAN_COMPLETE", "STEP_RESULT"}
      ]_vars

\* cancelled while step 2 was in progress, the Navigator then decided done
C19_Witness ==
    /\ returned.kind = "resolved"
    /\ shouldCancel
    /\ cancelStep = 2
    /\ Count("STEP_START") = 2
    /\ LastIs(events, "TASK_COMPLETE")

\* the listener calls one emit of event e makes: each subscribed listener, in order
CallsFor(ls, e) == [i \in 1..Len(ls) |-> <<ls[i], e>>]

(* C20: an emitted event is delivered, within the emit call, to every
   listener subscribed at that time, in registration order; a listener that
   throws is logged and the listeners after it still receive the event; the
   emit call returns, the event counts as emitted and nothing else of the
   Executor changes. *)
C20_DeliveredToAll ==
    [][ \A e \in EmittedEvents :
          EmitEvent(e)
          => /\ deliveries' = deliveries \o CallsFor(eventListeners, e)
             /\ listenerErrors' = listenerErrors
                   + Cardinality({i \in DOMAIN eventListeners :
                                     eventListeners[i] \in Throwing})
             /\ events' = Append(events, e)
             /\ UNCHANGED <<eventListeners, isRunning, shouldCancel, context, pc,
                            returned>>
      ]_vars

\* three listeners with the throwing one first; the event reached all three
C20_Witness ==
    /\ Len(eventListeners) = 3 /\ eventListeners[1] = "faulty"
    /\ Len(deliveries) >= 3
    /\ SubSeq(deliveries, Len(deliveries) - 2, Len(deliveries))
          = CallsFor(eventListeners, Last(events))
    /\ listenerErrors >= 1

----------------------------------------------------------------------------
(* One call at a time, the plan, action failures, start-up failures *)

\* C21: at most one provider call (engine creation, Planner, snapshot,
\* Navigator, action) is outstanding at any moment: a call is issued only
\* when the one before it has settled, a running task always awaits exactly
\* one, and a Planner call and a Navigator call are never outstanding together
C21_OneOutstandingCall ==
    /\ Len(outstanding) <= 1
    /\ isRunning <=> Len(outstanding) = 1
    /\ ~(\E i, j \in DOMAIN outstanding :
            /\ outstanding[i] \in {"createPlan", "replan"}
            /\ outstanding[j] = "getNextAction")

\* a replan call is awaited after a Navigator call of the same task failed
C21_Witness ==
    /\ outstanding = <<"replan">>
    /\ trigger = "navigator"
    /\ step >= 1

\* the awaits of the execution loop
LoopAwaits == {"snapshot", "navigate", "act", "replan"}

\* C22: from the successful initial planning until the task terminates the
\* context holds a plan: every getNextAction call and every replan call
\* receives a context with a plan, and a replan call that settles leaves the
\* context with a plan whenever the loop goes on
C22_PlanPresent ==
    [][/\ pc' \in LoopAwaits => (~context'.null /\ context'.plan # NoPlan)
       /\ pc' = "replan" => replanArgs'.plan # NoPlan
       /\ (pc = "replan" /\ isRunning') => context'.plan # NoPlan]_vars

\* the Navigator is called with the plan of a replan
C22_Witness ==
    /\ pc = "navigate"
    /\ context.plan = 2
    /\ Count("REPLAN") = 1

(* C23: an unsuccessful or thrown action does not end the task by itself.
   Its result is announced and recorded, and then either the streak's replan
   starts (third failure in a row, budget left) or the next iteration begins;
   the task ends in that step only by the cancel check or the step budget of
   the next loop head, and no finished call carries the action's error. *)
C23_ActionFailureNotFatal ==
    [][ FailureRecorded
        => /\ events'[Len(events) + 1] = StepResult([success |-> FALSE])
           /\ returned'.value # ActionError
           /\ \/ /\ pc' = "replan" /\ trigger' = "streak" /\ isRunning'
                 /\ consecutiveFailures + 1 >= StreakThreshold
                 /\ replans < MAX_REPLANS
                 /\ Last(replanArgs'.history).success = FALSE
              \/ /\ pc' = "snapshot" /\ isRunning'
                 /\ step' = step + 1
                 /\ Last(context'.history).success = FALSE
                 /\ Last(events') = StepStart(step' + 1)
                 /\ Count("TASK_FAILED")' = 0
              \/ /\ ~isRunning'
                 /\ step + 1 < MAX_STEPS
                 /\ shouldCancel
                 /\ returned' = [kind |-> "rejected", value |-> CancelledError]
                 /\ Count("TASK_FAILED")' = 0
              \/ /\ ~isRunning'
                 /\ step + 1 = MAX_STEPS
                 /\ returned' = [kind |-> "rejected", value |-> MaxStepsError]
                 /\ Last(events') = TaskFailed("", MaxStepsError)
      ]_vars

\* two failed applications in a row and the third iteration begun
C23_Witness ==
    /\ pc = "snapshot"
    /\ step = 2
    /\ consecutiveFailures = 2
    /\ Len(context.history) = 2
    /\ Count("REPLAN") = 0

\* the errors of a failed llmEngine.initialize()
InitializationErrors == {WebGPUError, LoadError}

(* C24: when the model initialization fails (unsupported hardware included)
   or the initial createPlan fails, the call rejects with that error after
   exactly one TASK_FAILED, emitted last and before the cleanup; no
   STEP_START was emitted, and for an initialization failure no PLAN_START
   either. *)
C24_StartupFailure ==
    /\ (returned.kind = "rejected" /\ returned.value \in InitializationErrors)
       => /\ Count("TASK_FAILED") = 1
          /\ Last(events) = TaskFailed("LLM initialization failed: ", returned.value)
          /\ cleanupAt = Len(events)
          /\ Count("STEP_START") = 0
          /\ Count("PLAN_START") = 0
          /\ Count("INIT_COMPLETE") = 0
    /\ (returned = [kind |-> "rejected", value |-> PlannerError]
          /\ Count("PLAN_COMPLETE") = 0)
       => /\ Count("TASK_FAILED") = 1
          /\ Last(events) = TaskFailed("Planning failed: ", PlannerError)
          /\ cleanupAt = Len(events)
          /\ Count("STEP_START") = 0
          /\ Count("PLAN_START") = 1
    /\ (pc \in {"init", "plan"}) => Count("STEP_START") = 0

\* the default model and its fallback both failed to load, after a progress report
C24_Witness ==
    /\ returned = [kind |-> "rejected", value |-> LoadError]
    /\ Count("INIT_PROGRESS") = 1
    /\ llm.initializationPromise = "rejected"
    /\ ~isRunning

----------------------------------------------------------------------------
(* One task after another *)

\* this.context = { task, history: [] } of the n-th call
FreshContext(n) == [null |-> FALSE, task |-> n, plan |-> NoPlan, history |-> <<>>]

(* C25: a call made when no task runs, whatever the task before it did, is
   accepted and starts fresh: the cancel flag is cleared (also when cancel()
   was called for the task before or between the tasks), the event log
   begins with INIT_START, both transcripts hold nothing of the task before,
   the context is created with the new task, no plan and an empty history,
   and the loop is entered with replans = 0, consecutiveFailures = 0 and
   step 0. *)
C25_FreshStart ==
    [][ /\ (callsMade' = callsMade + 1 /\ ~isRunning)
           => /\ returned'.value # AlreadyRunningError
              /\ shouldCancel' = FALSE
              /\ events'[1] = Ev("INIT_START")
              /\ Count("INIT_START")' = 1
              /\ navigatorTranscript' = <<>>
              /\ cancelStep' = -1
              /\ isRunning' => /\ returned' = NoReturn
                               /\ pc' \in {"init", "plan"}
              /\ pc' = "init" => (context' = NullContext /\ plannerTranscript' = <<>>)
              /\ pc' = "plan" => /\ context' = FreshContext(callsMade')
                                 /\ plannerTranscript' = <<"createPlan">>
        /\ (pc = "init" /\ pc' = "plan")
           => /\ \E n \in 1..callsMade : context' = FreshContext(n)
              /\ plannerTranscript' = <<"createPlan">>
              /\ navigatorTranscript' = <<>>
        /\ (CreatePlanReturns /\ isRunning')
           => /\ context' = [FreshContext(context.task) EXCEPT !.plan = 1]
              /\ replans' = 0 /\ consecutiveFailures' = 0 /\ step' = 0
              /\ pc' = "snapshot"
              /\ Last(events') = StepStart(1)
      ]_vars

\* the second task, begun after the first one ended, is at its first step
C25_Witness ==
    /\ context = [FreshContext(2) EXCEPT !.plan = 1]
    /\ pc = "snapshot"
    /\ step = 0
    /\ ~shouldCancel

----------------------------------------------------------------------------
(* The failure streak and the replans *)

(* C26 as claimed: a replan zeroes consecutiveFailures only when the failure
   streak triggered it; a replan triggered by a Navigator error or by a fail
   action leaves the counter as it was. *)
C26_OnlyStreakZeroes ==
    [][ (ReplanReturns /\ isRunning')
        => consecutiveFailures' =
               IF trigger = "streak" THEN 0 ELSE consecutiveFailures ]_vars

(* C26, amended: a replan triggered by the failure streak or by a fail action
   zeroes consecutiveFailures; a replan triggered by a Navigator error leaves
   the counter as it was. *)
C26_NavigatorReplanKeepsCounter ==
    [][ (ReplanReturns /\ isRunning')
        => /\ trigger \in {"streak", "fail"} => consecutiveFailures' = 0
           /\ trigger = "navigator" => consecutiveFailures' = consecutiveFailures
      ]_vars

\* two failed applications, then a fail action whose replan has zeroed the counter
C26_Witness ==
    /\ pc = "snapshot"
    /\ consecutiveFailures = 0
    /\ Len(context.history) = 2
    /\ \A i \in DOMAIN context.history : ~context.history[i].success
    /\ Len(events) >= 3
    /\ events[Len(events) - 2] = Replan("", "search box not found")

\* the successful STEP_RESULTs of the log
Successes == {i \in EventIdx("STEP_RESULT") : events[i].ok}

\* the REPLANs of the log caused by a fail action or by the failure streak
\* (a REPLAN caused by a Navigator error carries the "Navigator error: " prefix)
ResettingReplans == {i \in EventIdx("REPLAN") : events[i].prefix = ""}

(* C27 as claimed: at the top of every iteration consecutiveFailures is the
   number of unsuccessful ActionResults recorded since the most recent
   successful ActionResult or the most recent replan of any kind, whichever
   is later. *)
C27_StreakSinceAnyReplan ==
    pc = "snapshot"
    => consecutiveFailures
         = FailuresAfter(events, LastIdx(Successes \cup EventIdx("REPLAN")))

(* C27, amended: at the top of every iteration consecutiveFailures is the
   number of unsuccessful ActionResults recorded since the most recent
   successful ActionResult or the most recent replan triggered by a fail
   action or by the failure streak, whichever is later. *)
C27_StreakSinceResettingReplan ==
    pc = "snapshot"
    => consecutiveFailures
         = FailuresAfter(events, LastIdx(Successes \cup ResettingReplans))

\* a success, a failure, a Navigator-error replan and another failure: the
\* counter stands at 2 at the top of the fifth iteration
C27_Witness ==
    /\ pc = "snapshot"
    /\ step = 4
    /\ consecutiveFailures = 2
    /\ Successes # {}
    /\ EventIdx("REPLAN") # {}
    /\ ResettingReplans = {}
    /\ LastIdx(Successes) < LastIdx(EventIdx("REPLAN"))

----------------------------------------------------------------------------
(* Rejections and TASK_FAILED *)

(* C28: every executeTask call rejected for a reason other than the
   already-running guard or the cancellation has emitted exactly one
   TASK_FAILED before rejecting; in particular a planner.replan call that
   fails, at any of the three replan sites, ends the task with TASK_FAILED
   and a rejection. *)
C28_EveryRejectionEmits ==
    (returned.kind = "rejected"
       /\ returned.value \notin {AlreadyRunningError, CancelledError})
    => /\ Count("TASK_FAILED") = 1
       /\ LastIs(events, "TASK_FAILED")

\* the Planner has failed during a replan: the call is rejected with the
\* Planner's error and the log ends with the REPLAN event
C28_Witness ==
    /\ returned = [kind |-> "rejected", value |-> PlannerError]
    /\ LastIs(events, "REPLAN")
    /\ Count("TASK_FAILED") = 0
    /\ cleanupAt = Len(events)

----------------------------------------------------------------------------
(* Step numbers *)

\* the k-th STEP_START of the log is the one at index i
Rank(i) == Cardinality({j \in EventIdx("STEP_START") : j <= i})

\* the REPLANs of the log that end an iteration without an applied action:
\* those caused by a Navigator error or by a fail action
ReplansWithoutAction == {i \in EventIdx("REPLAN") : events[i].s # ActionError}

\* navigator.getNextAction calls made by the task: each has ended in a
\* STEP_ACTION or in the Navigator catch block, or is still awaited
NavigatorCalls ==
    Count("STEP_ACTION")
    + Cardinality({i \in DOMAIN events : events[i].prefix = "Navigator error: "})
    + (IF pc = "navigate" THEN 1 ELSE 0)

(* C29: the STEP_START events of a task carry 1, 2, 3, ... in order, without
   gaps, never more than MAX_STEPS.  Every iteration takes one step number,
   whether it ends in an applied action or in a replan caused by a Navigator
   error or a fail action; so the Navigator is called at most once per
   STEP_START, at most MAX_STEPS times, and the history is never longer than
   the number of STEP_START events. *)
C29_StepNumbers ==
    /\ \A i \in EventIdx("STEP_START") : events[i].n = Rank(i)
    /\ Count("STEP_START") <= MAX_STEPS
    /\ pc \in LoopAwaits => Count("STEP_START") = step + 1
    /\ pc \in {"snapshot", "navigate"}
       => Count("STEP_START")
            = 1 + Count("STEP_RESULT") + Cardinality(ReplansWithoutAction)
    /\ NavigatorCalls <= Count("STEP_START")
    /\ NavigatorCalls <= MAX_STEPS
    /\ pc \in LoopAwaits
       => /\ Len(context.history) = Count("STEP_RESULT")
          /\ Len(context.history) <= Count("STEP_START")

\* the last iteration of a task with a Navigator-error replan, a fail-action
\* replan and three applied actions before it
C29_Witness ==
    /\ pc = "navigate"
    /\ Last(events) = StepStart(MAX_STEPS)
    /\ Cardinality(ReplansWithoutAction) = 2
    /\ \E i \in ReplansWithoutAction : events[i].prefix = ""
    /\ \E i \in ReplansWithoutAction : events[i].prefix # ""
    /\ Len(context.history) = MAX_STEPS - 3

----------------------------------------------------------------------------
(* The rejected call *)

(* C30: an executeTask call rejected by the already-running guard leaves the
   running task untouched.  It changes nothing but its own outcome: the
   cancel flag keeps its value, set or not, the transcripts and the context
   stay, isRunning stays true, no event is emitted and no listener called,
   the provider call awaited by the running task stays outstanding; a later
   call made meanwhile meets the same guard. *)
C30_RejectedCallChangesNothing ==
    [][ (ExecuteTask /\ isRunning)
        => /\ returned' = [kind |-> "rejected", value |-> AlreadyRunningError]
           /\ callsMade' = callsMade + 1
           /\ Cur' = [Cur EXCEPT !.returned = returned', !.callsMade = callsMade']
           /\ isRunning' /\ AlreadyRunning(isRunning')
           /\ outstanding' = outstanding /\ Len(outstanding') = 1
      ]_vars

\* a call was rejected while the first one, whose cancel flag is set, awaits a replan
C30_Witness ==
    /\ returned = [kind |-> "rejected", value |-> AlreadyRunningError]
    /\ callsMade = 2
    /\ isRunning /\ pc = "replan"
    /\ shouldCancel
    /\ context.history # <<>>
    /\ plannerTranscript = <<"replan">>

----------------------------------------------------------------------------
(* The transcripts across a replan *)

\* the STEP_STARTs of the log after the last REPLAN
StepsSinceReplan == {i \in EventIdx("STEP_START") : i > LastIdx(EventIdx("REPLAN"))}

\* the failure reason each replan site passes to planner.replan
ReplanReasons ==
    [navigator |-> NavigatorError, fail |-> "search box not found",
     streak |-> ActionError]

(* C31: planner.replan is called with the context as it is at the call (the
   plan in force, the whole history, the failure reason of its trigger); the
   Planner resets its transcript and invokes the model once, so that during
   and after a replan the Planner's transcript holds the replan exchange
   alone, nothing of createPlan or of an earlier replan; the Navigator's
   transcript is cleared before the replan call and holds, at every later
   Navigator call, only the calls made since the last replan. *)
C31_ReplanStartsAfresh ==
    /\ pc = "replan"
       => /\ replanArgs = [history |-> context.history, plan |-> context.plan,
                           reason |-> ReplanReasons[trigger]]
          /\ replanArgs.plan = replans
          /\ plannerTranscript = <<"replan">>
          /\ navigatorTranscript = <<>>
          /\ outstanding = <<"replan">>
    /\ (pc \in LoopAwaits /\ Count("REPLAN") >= 1)
       => plannerTranscript = <<"replan">>
    /\ (pc \in {"navigate", "act"} /\ Count("REPLAN") >= 1)
       => Len(navigatorTranscript) = Cardinality(StepsSinceReplan)

\* the Navigator is called for the first time after the second replan
C31_Witness ==
    /\ pc = "navigate"
    /\ Count("REPLAN") = 2
    /\ plannerTranscript = <<"replan">>
    /\ navigatorTranscript = <<"getNextAction">>
    /\ Len(context.history) >= 2

----------------------------------------------------------------------------
(* The Navigator's prompt *)

(* C32: for a history of length n the prompt built by getNextAction shows the
   min(n, 5) most recent entries, oldest first, and no other entry; for an
   empty history it shows the no-actions notice instead. *)
C32_LastFiveEntries ==
    navigatorCall.prompt.built
    => LET h == navigatorCall.context.history
           n == Len(h)
           k == Min(n, RecentWindow)
           shown == navigatorCall.prompt.history
       IN  IF n = 0
           THEN shown = NoActionsNotice
           ELSE /\ Len(shown) = k
                /\ \A i \in 1..k : shown[i] = HistoryLine(h[n - k + i])

\* six entries, the oldest a success and the five after it failures: the
\* prompt shows the five failures
C32_Witness ==
    /\ navigatorCall.prompt.built
    /\ Len(navigatorCall.context.history) = RecentWindow + 1
    /\ navigatorCall.context.history[1].success
    /\ \A i \in 2..(RecentWindow + 1) : ~navigatorCall.context.history[i].success
    /\ Len(navigatorCall.prompt.history) = RecentWindow
    /\ \A i \in 1..RecentWindow : navigatorCall.prompt.history[i].outcome = "FAILED: "

(* C33: the prompt lists at most MAX_INTERACTIVE_ELEMENTS interactive
   elements, the first ones of the snapshot in snapshot order, each once (the
   no-elements notice when the snapshot has none), and an excerpt made of the
   first 1500 characters of pageText at most; one element and a pageText of
   2000 characters give a prompt with that element and a 1500-character
   excerpt. *)
C33_BoundedSnapshot ==
    navigatorCall.prompt.built
    => LET els == navigatorCall.domState.interactiveElements
           text == navigatorCall.domState.pageText
           k == Min(Len(els), MAX_INTERACTIVE_ELEMENTS)
           m == Min(Len(text), ExcerptLength)
           shown == navigatorCall.prompt.elements
           excerpt == navigatorCall.prompt.excerpt
       IN  /\ IF Len(els) = 0
              THEN shown = NoElementsNotice
              ELSE /\ Len(shown) = k
                   /\ \A i \in 1..k : shown[i] = ElementLine(els[i])
                   /\ \A i, j \in 1..k : shown[i] = shown[j] => i = j
           /\ Len(excerpt) = m
           /\ \A i \in 1..m : excerpt[i] = text[i]
           /\ (Len(els) = 1 /\ Len(text) = 2000)
              => (shown = <<ElementLine(els[1])>> /\ Len(excerpt) = 1500)

\* one button and 2000 characters of page text
C33_Witness ==
    /\ navigatorCall.prompt.built
    /\ Len(navigatorCall.domState.interactiveElements) = 1
    /\ Len(navigatorCall.domState.pageText) = 2000
    /\ Len(navigatorCall.prompt.elements) = 1
    /\ Len(navigatorCall.prompt.excerpt) = 1500
    /\ navigatorCall.prompt.ellipsis

----------------------------------------------------------------------------
(* The content-side action provider *)

\* the call's selector, when it has one
SelectorOf(c) == IF c.params.given THEN c.params.selector ELSE ABSENT

(* C34: executeAction never rejects.  For every action type, parameter
   mapping and page it resolves to an ActionResult, and every failure has
   success = false with error set: a missing element, a wait that times out,
   an unknown action type (done and fail included) and an exception raised
   inside an action implementation. *)
C34_NeverRejects ==
    contentCall.outcome # NoOutcome
    => LET c == contentCall
           o == c.outcome
           missing == /\ c.params.given
                      /\ ResolveSelector(c.params.selector, c.page) = "none"
       IN  /\ o.kind = "resolved"
           /\ o.result.success \in BOOLEAN
           /\ ~o.result.success <=> o.result.error # ABSENT
           /\ (c.actionType \in {"click", "type"} /\ missing)
              => o.result = [success |-> FALSE, data |-> ABSENT,
                             error |-> <<"Element not found: ", SelectorOf(c)>>]
           /\ (c.actionType = "wait" /\ missing /\ SelectorOf(c) \notin {ABSENT, ""})
              => o.result.error = <<"Timeout waiting for element: ", SelectorOf(c)>>
           /\ c.actionType \notin {"click", "type", "extract", "scroll", "wait", "navigate"}
              => o.result.error = <<"Unknown action type: ", c.actionType>>
           /\ Dispatch(c.actionType, c.params, c.page).threw
              => (~o.result.success
                  /\ o.result.error = Dispatch(c.actionType, c.params, c.page).message)

\* a type action without text: the exception of the implementation has
\* become an unsuccessful result
C34_Witness ==
    /\ contentCall.actionType = "type"
    /\ contentCall.params = Params("#selector", ABSENT)
    /\ contentCall.page = [element |-> "input", faulty |-> FALSE]
    /\ contentCall.outcome =
           [kind |-> "resolved",
            result |-> [success |-> FALSE, data |-> ABSENT,
                        error |-> "text is not iterable"]]

----------------------------------------------------------------------------
(* LLMEngineManager.initialize *)

\* the doInitialize runs whose engine creation is in progress
Creating(modelId) ==
    {r \in DOMAIN manager.runs :
        manager.runs[r].status = "creating" /\ manager.runs[r].modelId = modelId}

(* C35: initialize called for a model while an initialization of that model
   is in flight returns the initialization in flight and starts no other:
   whatever the interleaving of initialize calls with one model id, at most
   one engine creation for it is in progress. *)
C35_OneCreationInFlight ==
    \A modelId \in RequestedModels : Cardinality(Creating(modelId)) <= 1

\* two initialize(DEFAULT_MODEL) calls, each with its own engine creation in progress
C35_Witness ==
    /\ Len(manager.calls) = 2
    /\ \A i \in 1..2 : manager.calls[i].modelId = DEFAULT_MODEL /\ manager.calls[i].started
    /\ Creating(DEFAULT_MODEL) = {1, 2}

\* some initialize(modelId) call has completed successfully
CompletedSuccessfully(modelId) ==
    \E i \in DOMAIN manager.calls :
        /\ manager.calls[i].modelId = modelId
        /\ \/ manager.calls[i].awaits = 0
           \/ manager.runs[manager.calls[i].awaits].status = "resolved"

(* C36: once initialize(modelId) has completed successfully, a later
   initialize(modelId) with the same requested model id starts no engine
   creation, whichever model (the requested one or a fallback) was loaded. *)
C36_NoReload ==
    [][\A modelId \in RequestedModels :
          (InitializeCall(modelId) /\ CompletedSuccessfully(modelId))
          => Len(manager'.runs) = Len(manager.runs)]_vars

\* initialize(DEFAULT_MODEL) completed by loading the fallback model, and the
\* next initialize(DEFAULT_MODEL) started a second doInitialize run
C36_Witness ==
    /\ Len(manager.calls) = 2
    /\ Len(manager.runs) = 2
    /\ \A i \in 1..2 : manager.calls[i].modelId = DEFAULT_MODEL /\ manager.calls[i].awaits = i
    /\ manager.runs[1].status = "resolved"
    /\ manager.runs[1].tryIdx = 2
    /\ manager.runs[2].status = "creating"

\* the doInitialize runs that have rejected
Rejected(m) == {r \in DOMAIN m.runs : m.runs[r].status = "rejected"}

(* C37: doInitialize tries the requested model first and then each fallback
   in order and stops at the first that loads; it rejects only when every
   candidate failed, with the last candidate's error; on success the engine
   is set, currentModel is the model loaded and isLoading is false; on a
   total failure or a missing-WebGPU failure isLoading is false and error is
   set; and an initialize call made after a failure starts a new attempt
   and is never handed the failed one. *)
C37_FallbackOrderAndRetry ==
    [][/\ \A r \in DOMAIN manager'.runs :
            LET new == manager'.runs[r]
                fresh == r \notin DOMAIN manager.runs
                models == ModelsToTry(new.modelId)
            IN  /\ (fresh /\ new.status = "creating")
                   => new.tryIdx = 1 /\ Candidate(new) = new.modelId
                /\ (~fresh /\ manager.runs[r].status = "creating"
                           /\ new.status = "creating")
                   => new.tryIdx \in {manager.runs[r].tryIdx, manager.runs[r].tryIdx + 1}
                /\ (~fresh /\ manager.runs[r].status = "creating"
                           /\ new.status = "resolved")
                   => /\ new.tryIdx = manager.runs[r].tryIdx
                      /\ manager'.state.engine = <<models[new.tryIdx], r>>
                      /\ manager'.state.currentModel = models[new.tryIdx]
                      /\ ~manager'.state.isLoading
                /\ (~fresh /\ manager.runs[r].status = "creating"
                           /\ new.status = "rejected")
                   => /\ new.tryIdx = Len(models)
                      /\ new.error = LoadErrorOf(models[Len(models)])
                      /\ manager'.state.error = new.error
                      /\ ~manager'.state.isLoading
                /\ (fresh /\ new.status = "rejected")
                   => /\ ~hasGPU
                      /\ new.error = WebGPUError
                      /\ manager'.state.error = WebGPUError
                      /\ ~manager'.state.isLoading
                /\ (~fresh /\ manager.runs[r].status # "creating")
                   => new = manager.runs[r]
       /\ Len(manager'.calls) > Len(manager.calls)
          => manager'.calls[Len(manager'.calls)].awaits \notin Rejected(manager)]_vars

\* one run loaded the requested model, a second one started meanwhile failed
\* on every candidate, and the next initialize call was handed the failed run
C37_Witness ==
    /\ Len(manager.calls) = 3
    /\ Len(manager.runs) = 2
    /\ manager.runs[1].status = "resolved"
    /\ manager.runs[2].status = "rejected"
    /\ manager.calls[3].awaits = 2
    /\ ~manager.calls[3].started

----------------------------------------------------------------------------
(* The offscreen host *)

\* the CreateMLCEngine calls in progress
InFlight(o) == {c \in DOMAIN o.creations : o.creations[c].status = "creating"}

\* the reply sent for the message numbered msg, ABSENT while none was sent
ReplyTo(o, msg) ==
    IF \E i \in DOMAIN o.replies : o.replies[i].to = msg
    THEN o.replies[CHOOSE i \in DOMAIN o.replies : o.replies[i].to = msg].reply
    ELSE ABSENT

(* C38: in the offscreen host, whatever the interleaving of INIT_LLM and
   LLM_STATUS messages, at most one engine creation is in flight; an
   INIT_LLM received while one is in flight is answered success=false,
   'Already initializing', and starts none; an INIT_LLM received once the
   engine exists is answered success=true and creates no second engine; an
   INIT_LLM received with no engine and none in flight (also after a
   failure) starts one; isInitializing is cleared when a creation resolves
   and when it rejects; and the engine is non-null only while isInitializing
   is false. *)
C38_OneCreationInFlight ==
    [][LET o == offscreen
           n == offscreen'
           msg == Len(n.received)
           init == /\ Len(n.received) = Len(o.received) + 1
                   /\ n.received[msg].type = "INIT_LLM"
       IN  /\ Cardinality(InFlight(n)) <= 1
           /\ n.engine # <<>> => ~n.isInitializing
           /\ n.isInitializing <=> InFlight(n) # {}
           /\ (init /\ o.engine = <<>> /\ InFlight(o) # {})
              => /\ ReplyTo(n, msg) = [success |-> FALSE, error |-> AlreadyInitializing]
                 /\ n.creations = o.creations
                 /\ n.engine = o.engine
           /\ (init /\ o.engine # <<>>)
              => /\ ReplyTo(n, msg) = [success |-> TRUE, error |-> ""]
                 /\ n.creations = o.creations
                 /\ n.engine = o.engine
           /\ (init /\ o.engine = <<>> /\ InFlight(o) = {})
              => /\ Len(n.creations) = Len(o.creations) + 1
                 /\ InFlight(n) = {Len(n.creations)}
                 /\ ReplyTo(n, msg) = ABSENT
           /\ \A c \in InFlight(o) \ InFlight(n) :
                 /\ ~n.isInitializing
                 /\ n.creations[c].status = "resolved"
                    => /\ n.engine = <<n.creations[c].modelId, c>>
                       /\ ReplyTo(n, n.creations[c].for).success
                 /\ n.creations[c].status = "rejected"
                    => /\ n.engine = o.engine
                       /\ ~ReplyTo(n, n.creations[c].for).success]_vars

\* an INIT_LLM was refused while a creation was in flight, that creation
\* failed, a retry created the engine, and a further INIT_LLM was answered
\* success without a creation
C38_Witness ==
    /\ Len(offscreen.received) = 4
    /\ \A i \in 1..4 : offscreen.received[i].type = "INIT_LLM"
    /\ Len(offscreen.creations) = 2
    /\ offscreen.creations[1].status = "rejected"
    /\ offscreen.creations[2].status = "resolved"
    /\ offscreen.creations[2].for = 3
    /\ offscreen.engine # <<>>
    /\ ReplyTo(offscreen, 2) = [success |-> FALSE, error |-> AlreadyInitializing]
    /\ ReplyTo(offscreen, 4) = [success |-> TRUE, error |-> ""]

----------------------------------------------------------------------------
(* The progress subscription *)

(* C39: the Executor's progress subscription exists exactly while the
   initialization is awaited: it is removed when the initialization completes
   or fails, a task that is not running has none on the shared engine, and
   every INIT_PROGRESS of a task comes after its INIT_START and before its
   INIT_COMPLETE or TASK_FAILED, whenever the engine reports progress. *)
C39_SubscribedWhileInitializing ==
    /\ "executor" \in progressCallbacks <=> pc = "init"
    /\ ~isRunning => progressCallbacks = {}
    /\ \A i \in EventIdx("INIT_PROGRESS") :
          /\ Before("INIT_START", i)
          /\ ~Before("INIT_COMPLETE", i)
          /\ ~Before("TASK_FAILED", i)

\* the engine reported progress after the first task's INIT_COMPLETE and no
\* INIT_PROGRESS was emitted for it: the only one is that of the finished load
C39_Witness ==
    /\ callsMade = 1
    /\ Count("INIT_COMPLETE") = 1
    /\ Count("INIT_PROGRESS") = 1
    /\ reports = 1
    /\ llm.loadProgress = 50

----------------------------------------------------------------------------
(* cancel() and the entry of executeTask *)

(* C40: a cancel() made while no task runs does not reach the next task:
   executeTask clears the flag on entry, and a task is rejected with the
   cancellation error only if cancel() was called after its entry.  A
   cancel() made after the entry (during initialization, planning or
   stepping) is not lost: the flag stays set for as long as the task runs,
   and while it is set no STEP_START is emitted. *)
C40_CancelAfterEntryOnly ==
    [][ /\ (~isRunning /\ isRunning') => ~shouldCancel'
        /\ (isRunning /\ shouldCancel /\ isRunning') => shouldCancel'
        /\ (isRunning /\ shouldCancel)
           => \A i \in DOMAIN NewEvents : NewEvents[i].type # "STEP_START"
        /\ (isRunning /\ ~isRunning' /\ returned'.value = CancelledError)
           => shouldCancel /\ cancelStep >= 0
      ]_vars

\* the second task was cancelled while its first plan was awaited: the flag,
\* cleared on entry, was set again, no step began, and the call was rejected
\* with the cancellation error when the plan had arrived
C40_Witness ==
    /\ callsMade = 2
    /\ ~isRunning
    /\ shouldCancel
    /\ cancelStep = 0
    /\ returned = [kind |-> "rejected", value |-> CancelledError]
    /\ Count("STEP_START") = 0
    /\ LastIs(events, "PLAN_COMPLETE")
====
